---- MODULE Spec2Model ----
(***************************************************************************)
(* The AppsFlyer SDK MCP server: the shared logcat buffer, the record      *)
(* parser, the expected deep-link state, and the two verification tools    *)
(* verifyDeepLink and verifyInAppEvent, as state machines over one         *)
(* single-threaded event loop.                                             *)
(*                                                                         *)
(* JavaScript values are records [t |-> typeof, v |-> rendering]: t is the *)
(* type tag and v is what String(value) or JSON.stringify(value) prints.   *)
(* A JSON object is a function from its keys to such values.  A log line   *)
(* is the record of what the code reads off its text.                      *)
(***************************************************************************)
EXTENDS Integers, Sequences, FiniteSets, TLC

VARIABLES
    logBuffer,                   \* stream.ts logBuffer: the raw lines, oldest first
    streaming,                   \* whether the logcat stream has been started
    latestDeepLinkExpectedData,  \* deepLinkState.ts: NoExpectedData or the last write
    now,                         \* Date.now(), in ms
    dlPc, dlWaited, dlResult,    \* one verifyDeepLink call: position, waited, result
    iaPc, iaWaited, iaArg, iaResult, \* one verifyInAppEvent call, and its eventName
    ingested,                    \* how many lines the stream has delivered
    streams,                     \* how many log-tailing streams exist
    cdFetched,                   \* createDeepLink: the URL and the data of its last fetch
    sdkPc, sdkWaited, sdkResult, \* one verifyAppsFlyerSdk call: position, waited, result
    extraction,                  \* extractJsonFromLine on a line's text: the line, the result
    env,                         \* process.env: DEV_KEY and APP_ID
    cdPc, cdArgs, cdResult,      \* one createDeepLink call: position, arguments, result
    oneTimeResult,               \* credential guard: the recorded validation result
    inFlight,                    \* credential guard: the validation run in flight, 0 for null
    runs,                        \* credential guard: the validation runs started so far
    guardCalls                   \* the calls of guarded tools: position, tool, validation

vars == <<logBuffer, streaming, latestDeepLinkExpectedData, now,
          dlPc, dlWaited, dlResult, iaPc, iaWaited, iaArg, iaResult, ingested,
          streams, cdFetched, sdkPc, sdkWaited, sdkResult, extraction,
          env, cdPc, cdArgs, cdResult, oneTimeResult, inFlight, runs, guardCalls>>

createVars == <<cdPc, cdArgs, cdResult>>
guardVars == <<oneTimeResult, inFlight, runs, guardCalls>>

-----------------------------------------------------------------------------
(* Bounds of the model *)

\* capacity of logBuffer (the buffer evicts its oldest line beyond it)
MaxBuffer == 3
\* lines the stream delivers in one run
MaxIngest == 3
\* calls of guarded tools that can be under way at a time
MaxCalls == 2
\* how many 200 ms steps the clock advances in one run
MaxTicks == 1
\* lines the stream delivers in a run that overflows the buffer
MaxArrivals == 5
\* lines the stream delivers while calls fail
MaxErrorLines == 2
\* pieces of a line's text
MaxPieces == 5

(* Program constants *)

RECENT_WINDOW_MS == 5 * 60 * 1000
DAY_MS == 24 * 60 * 60 * 1000
PollStepMs == 200
PollLimitMs == 2000
RecentLimit == 700

\* the clock when the server starts, and the last instant the model reaches
StartMs == 2 * RECENT_WINDOW_MS
EndMs == StartMs + MaxTicks * PollStepMs

-----------------------------------------------------------------------------
(* JavaScript values *)

Undefined == [t |-> "undefined", v |-> ""]
Null == [t |-> "null", v |-> "null"]
Str(s) == [t |-> "string", v |-> s]
Bool(b) == [t |-> "boolean", v |-> IF b THEN "true" ELSE "false"]
Num(s) == [t |-> "number", v |-> s]

\* the value null where an object is expected (a failed parse, no stored data)
NoJson == [null |-> TRUE]

\* String.prototype.trim on the strings of the model
Trim(s) ==
    CASE s = " " -> ""
      [] s = " INAPP-2 " -> "INAPP-2"
      [] s = " k " -> "k"
      [] s = " a.b " -> "a.b"
      [] OTHER -> s

\* JSON.parse on the strings of the model: the object a string denotes, NoJson
\* for a string that does not parse or does not denote an object
JsonParse(s) ==
    CASE s = "{\"is_deferred\":false}" -> [is_deferred |-> Bool(FALSE)]
      [] s = "{\"is_deferred\":true,\"deep_link_value\":\"n\"}" ->
            [is_deferred |-> Bool(TRUE), deep_link_value |-> Str("n")]
      [] s = "{\"deep_link_value\":\"n\"}" -> [deep_link_value |-> Str("n")]
      [] OTHER -> NoJson

\* obj[key] in JavaScript: undefined for a key the object does not have
Get(obj, key) ==
    IF obj # NoJson /\ key \in DOMAIN obj THEN obj[key] ELSE Undefined

-----------------------------------------------------------------------------
(* Log lines.  has: the case-sensitive markers the text contains; lower:   *)
(* the markers its lower-cased text contains; token: the first match of    *)
(* /(INAPP-\d+)/i, "" for none; stamp: the timestamp prefix; body: the     *)
(* span from the first { to the last }.                                    *)

NoStamp == [form |-> "none", cur |-> 0, prev |-> 0]
\* YYYY-MM-DD HH:MM:SS.mmm, ms the instant it denotes
FullStamp(ms) == [form |-> "full", cur |-> ms, prev |-> ms]
\* MM-DD HH:MM:SS.mmm: the instant it denotes in the current and in the previous year
ShortStamp(cur, prev) == [form |-> "short", cur |-> cur, prev |-> prev]

NoBody == [kind |-> "none", obj |-> NoJson]
BadBody == [kind |-> "bad", obj |-> NoJson]
JsonBody(obj) == [kind |-> "json", obj |-> obj]

Line(has, lower, token, stamp, body) ==
    [has |-> has, lower |-> lower, token |-> token, stamp |-> stamp, body |-> body]

-----------------------------------------------------------------------------
(* logcat/parse.ts *)

\* the year inference without the day of grace
parseLogcatTimestamp_NoGrace(line, nowMs) ==
    CASE line.stamp.form = "full" -> [hasMs |-> TRUE, ms |-> line.stamp.cur]
      [] line.stamp.form = "short" ->
            IF line.stamp.cur > nowMs
            THEN [hasMs |-> TRUE, ms |-> line.stamp.prev]
            ELSE [hasMs |-> TRUE, ms |-> line.stamp.cur]
      [] OTHER -> [hasMs |-> FALSE, ms |-> 0]

parseLogcatTimestamp(line, nowMs) ==
    CASE line.stamp.form = "full" -> [hasMs |-> TRUE, ms |-> line.stamp.cur]
      [] line.stamp.form = "short" ->
            IF line.stamp.cur > nowMs + DAY_MS
            THEN [hasMs |-> TRUE, ms |-> line.stamp.prev]
            ELSE [hasMs |-> TRUE, ms |-> line.stamp.cur]
      [] OTHER -> [hasMs |-> FALSE, ms |-> 0]

extractJsonFromLine(line) ==
    IF line.body.kind = "json" THEN line.body.obj ELSE NoJson

\* Array.prototype.slice(-n)
LastN(s, n) ==
    IF Len(s) <= n THEN s ELSE SubSeq(s, Len(s) - n + 1, Len(s))

\* line.includes(keyword), "" standing for no keyword
Includes(line, keyword) == keyword = "" \/ keyword \in line.has

ParsedLog(line, keyword, nowMs) ==
    LET timestamp == parseLogcatTimestamp(line, nowMs)
    IN  [hasMs |-> timestamp.hasMs, timestampMs |-> timestamp.ms,
         type |-> IF keyword = "" THEN "ALL" ELSE keyword,
         json |-> extractJsonFromLine(line)]

\* recent.map(...).filter(Boolean): a line whose JSON is null maps to null
ParseAll(lines, keyword, nowMs) ==
    LET mapped == [i \in 1..Len(lines) |-> ParsedLog(lines[i], keyword, nowMs)]
        NotNull(log) == log.json # NoJson
    IN  SelectSeq(mapped, NotNull)

MatchesFilter(line, keyword) == "AppsFlyer" \in line.has /\ Includes(line, keyword)

\* the cut taken on the buffer, before the filter
getParsedAppsflyerFilters_CutsFirst(keyword, buffer, nowMs) ==
    LET Matches(line) == MatchesFilter(line, keyword)
        recent == LastN(buffer, RecentLimit)
    IN  ParseAll(SelectSeq(recent, Matches), keyword, nowMs)

getParsedAppsflyerFilters(keyword, buffer, nowMs) ==
    LET Matches(line) == MatchesFilter(line, keyword)
        lines == SelectSeq(buffer, Matches)
        recent == LastN(lines, RecentLimit)
    IN  ParseAll(recent, keyword, nowMs)

-----------------------------------------------------------------------------
(* state/deepLinkState.ts *)

NoExpectedData == [oneLinkUrl |-> "", payload |-> NoJson, updatedAtMs |-> 0]

ExpectedData(oneLinkUrl, payload, nowMs) ==
    [oneLinkUrl |-> oneLinkUrl, payload |-> payload, updatedAtMs |-> nowMs]

getLatestDeepLinkExpectedData == latestDeepLinkExpectedData

-----------------------------------------------------------------------------
(* tools/verifyDeepLink.ts *)

DEEPLINK_KEYWORD == "deepLink"
STATUS_KEY == "status"
BothTypes == {"deferred", "direct"}

FieldSpec(key, aliases, requiredFor, compareFor) ==
    [key |-> key, aliases |-> aliases, requiredFor |-> requiredFor,
     compareFor |-> compareFor]

DEEP_LINK_FIELDS ==
    << FieldSpec("status", <<>>, BothTypes, {}),
       FieldSpec("is_deferred", <<>>, BothTypes, BothTypes),
       FieldSpec("deep_link_value", <<>>, BothTypes, BothTypes),
       FieldSpec("deep_link_sub1", <<>>, BothTypes, BothTypes),
       FieldSpec("af_sub1", <<>>, {"deferred"}, {"deferred"}),
       FieldSpec("af_sub2", <<>>, {"deferred"}, {"deferred"}),
       FieldSpec("af_sub3", <<>>, {"deferred"}, {"deferred"}),
       FieldSpec("af_sub4", <<>>, {"deferred"}, {"deferred"}),
       FieldSpec("af_sub5", <<>>, {"deferred"}, {"deferred"}),
       FieldSpec("pid", <<"media_source">>, {"direct"}, {"direct"}),
       FieldSpec("c", <<"campaign">>, {"direct"}, {"direct"}) >>

isMissingRequiredValue(value) ==
    \/ value.t \in {"undefined", "null"}
    \/ value.t = "string" /\ Trim(value.v) = ""

getFieldFromSources(key, source) ==
    IF source # NoJson /\ key \in DOMAIN source THEN source[key] ELSE Undefined

RECURSIVE FirstAlias(_, _)
FirstAlias(aliases, payload) ==
    IF aliases = <<>> THEN Undefined
    ELSE LET aliasValue == getFieldFromSources(Head(aliases), payload)
         IN  IF aliasValue # Undefined THEN aliasValue
             ELSE FirstAlias(Tail(aliases), payload)

\* the aliases asked before the spec's own key
getValueForSpec_AliasFirst(spec, payload, status) ==
    IF spec.key = "status" THEN status
    ELSE LET aliasValue == FirstAlias(spec.aliases, payload)
         IN  IF aliasValue # Undefined THEN aliasValue
             ELSE getFieldFromSources(spec.key, payload)

getValueForSpec(spec, payload, status) ==
    IF spec.key = "status" THEN status
    ELSE LET directValue == getFieldFromSources(spec.key, payload)
         IN  IF directValue # Undefined THEN directValue
             ELSE FirstAlias(spec.aliases, payload)

\* the string under key, Undefined when the value is no string
getStringField(json, key) ==
    IF Get(json, key).t = "string" THEN Get(json, key) ELSE Undefined

\* the boolean under key, Undefined when the value is no boolean
getBooleanField(json, key) ==
    IF Get(json, key).t = "boolean" THEN Get(json, key) ELSE Undefined

parseDeepLinkJson(value) ==
    IF value.t = "string" THEN JsonParse(value.v) ELSE NoJson

normalizeToComparable(value) ==
    IF value.t \in {"null", "undefined"} THEN "" ELSE value.v

\* a ?? b on objects
OrElseJson(a, b) == IF a # NoJson THEN a ELSE b
\* a ?? b on values
OrElse(a, b) == IF a.t \in {"null", "undefined"} THEN b ELSE a

\* {...under, ...over}
Spread(under, over) ==
    IF under = NoJson THEN over ELSE over @@ under

Reverse(s) == [i \in 1..Len(s) |-> s[Len(s) + 1 - i]]

NoLog == [hasMs |-> FALSE, timestampMs |-> 0, type |-> "none", json |-> NoJson]

HasFoundStatus(log) == getStringField(log.json, STATUS_KEY) = Str("FOUND")

\* Array.prototype.find for the status test: the first such record, NoLog for none
RECURSIVE FindFound(_)
FindFound(s) ==
    IF s = <<>> THEN NoLog
    ELSE IF HasFoundStatus(Head(s)) THEN Head(s) ELSE FindFound(Tail(s))

IsRecent(log, sinceMs) ==
    log.hasMs /\ log.timestampMs # 0 /\ log.timestampMs >= sinceMs

\* the scope step left out: every deep-link record counts as recent
RecentLogs_All(logs, sinceMs) == logs

RecentLogs(logs, sinceMs) ==
    LET Recent(log) == IsRecent(log, sinceMs)
    IN  SelectSeq(logs, Recent)

\* direct for everything that is not true
EvaluationType_Falsy(isDeferred) ==
    IF isDeferred = Bool(TRUE) THEN "deferred" ELSE "direct"

EvaluationType(isDeferred) ==
    IF isDeferred = Bool(FALSE) THEN "direct" ELSE "deferred"

FieldEval(spec, expectedPayload, receivedPayload, status) ==
    LET expectedRaw == getValueForSpec(spec, expectedPayload, Undefined)
        receivedRaw == getValueForSpec(spec, receivedPayload, status)
    IN  [spec |-> spec,
         expectedRaw |-> expectedRaw,
         expectedNorm |-> normalizeToComparable(expectedRaw),
         expectedPresent |-> ~isMissingRequiredValue(expectedRaw),
         receivedRaw |-> receivedRaw,
         receivedNorm |-> normalizeToComparable(receivedRaw)]

\* the required test without the check that the expected value is present
IsRequiredEval_NoPresence(ev, expectedPayload, evaluationType) ==
    IF ev.spec.key \in {"status", "is_deferred"} THEN TRUE
    ELSE IF expectedPayload # NoJson
         THEN evaluationType \in ev.spec.compareFor
         ELSE evaluationType \in ev.spec.requiredFor

\* an expected payload without keys taken as no expected payload
IsRequiredEval_EmptyIsNone(ev, expectedPayload, evaluationType) ==
    IF ev.spec.key \in {"status", "is_deferred"} THEN TRUE
    ELSE IF expectedPayload # NoJson /\ DOMAIN expectedPayload # {}
         THEN evaluationType \in ev.spec.compareFor /\ ev.expectedPresent
         ELSE evaluationType \in ev.spec.requiredFor

IsRequiredEval(ev, expectedPayload, evaluationType) ==
    IF ev.spec.key \in {"status", "is_deferred"} THEN TRUE
    ELSE IF expectedPayload # NoJson
         THEN evaluationType \in ev.spec.compareFor /\ ev.expectedPresent
         ELSE evaluationType \in ev.spec.requiredFor

IsCompareEval(ev, evaluationType) ==
    evaluationType \in ev.spec.compareFor /\ ev.expectedPresent

MissingEntry(ev) == [key |-> ev.spec.key, received |-> ev.receivedNorm]

\* the comparison on the raw values instead of the normalized strings
Comparison_Raw(ev) ==
    [key |-> ev.spec.key, expected |-> ev.expectedNorm,
     received |-> ev.receivedNorm, included |-> TRUE,
     matches |-> (ev.expectedRaw = ev.receivedRaw)]

Comparison(ev) ==
    [key |-> ev.spec.key, expected |-> ev.expectedNorm,
     received |-> ev.receivedNorm, included |-> TRUE,
     matches |-> (ev.expectedNorm = ev.receivedNorm)]

MapSeq(Op(_), s) == [i \in 1..Len(s) |-> Op(s[i])]

\* the verdict with the comparison left out
VerificationPassed_NoComparison(status, missingRequired, hasExpectedData, mismatches) ==
    status = Str("FOUND") /\ Len(missingRequired) = 0

VerificationPassed(status, missingRequired, hasExpectedData, mismatches) ==
    /\ status = Str("FOUND")
    /\ Len(missingRequired) = 0
    /\ (IF hasExpectedData THEN Len(mismatches) = 0 ELSE TRUE)

NoResult == [outcome |-> "none"]

Diagnostic(outcome, logs, allLogs, recentLogs, sinceMs, latestLog) ==
    [outcome |-> outcome, logs |-> logs, allLogs |-> allLogs,
     recentLogs |-> recentLogs, sinceMs |-> sinceMs, latestLog |-> latestLog]

\* lines 204-345: the verdict on the located record
Verdict(foundLog, expectedDataState, logs, allLogs, recentLogs, sinceMs) ==
    LET status == getStringField(foundLog.json, STATUS_KEY)
        deepLinkPayload ==
            OrElseJson(parseDeepLinkJson(Get(foundLog.json, "deepLink")),
                       parseDeepLinkJson(Get(foundLog.json, "deeplink")))
        isDeferred ==
            OrElse(getBooleanField(foundLog.json, "is_deferred"),
                   getBooleanField(deepLinkPayload, "is_deferred"))
        expectedPayload == expectedDataState.payload
        receivedPayload == Spread(deepLinkPayload, foundLog.json)
        evaluationType == EvaluationType(isDeferred)
        deepLinkTypeLabel ==
            IF isDeferred = Undefined THEN "unknown" ELSE evaluationType
        Eval(spec) == FieldEval(spec, expectedPayload, receivedPayload, status)
        fieldEvals == MapSeq(Eval, DEEP_LINK_FIELDS)
        Required(ev) == IsRequiredEval(ev, expectedPayload, evaluationType)
        requiredFieldEvals == SelectSeq(fieldEvals, Required)
        Compare(ev) == IsCompareEval(ev, evaluationType)
        compareFieldEvals == SelectSeq(fieldEvals, Compare)
        MissingReceived(ev) == isMissingRequiredValue(ev.receivedRaw)
        missingRequired ==
            MapSeq(MissingEntry, SelectSeq(requiredFieldEvals, MissingReceived))
        comparisons == MapSeq(Comparison, compareFieldEvals)
        NoMatch(item) == ~item.matches
        mismatches == SelectSeq(comparisons, NoMatch)
        hasExpectedData == expectedPayload # NoJson
        verificationPassed ==
            VerificationPassed(status, missingRequired, hasExpectedData, mismatches)
    IN  [outcome |-> IF verificationPassed THEN "Passed" ELSE "Failed",
         logs |-> logs, allLogs |-> allLogs, recentLogs |-> recentLogs,
         sinceMs |-> sinceMs, latestLog |-> recentLogs[Len(recentLogs)],
         foundLog |-> foundLog, status |-> status, isDeferred |-> isDeferred,
         expectedPayload |-> expectedPayload, hasExpectedData |-> hasExpectedData,
         evaluationType |-> evaluationType,
         deepLinkTypeLabel |-> deepLinkTypeLabel,
         required |-> MapSeq(MissingEntry, requiredFieldEvals),
         missingRequired |-> missingRequired,
         comparisons |-> comparisons,
         mismatches |-> mismatches]

\* the search run oldest-to-newest
LocateFound_Oldest(recentLogs) == FindFound(recentLogs)

\* lines 184-187: the newest recent record whose status is "FOUND"
LocateFound(recentLogs) == FindFound(Reverse(recentLogs))

\* the stages with the test on allLogs inverted
Stage_AllLogsInverted(logs, allLogs, recentLogs, foundLog) ==
    IF Len(logs) = 0
    THEN IF Len(allLogs) # 0 THEN "NoAppsFlyerLogs" ELSE "NoDeepLinkLogs"
    ELSE IF Len(recentLogs) = 0 THEN "NoRecentLogs"
    ELSE IF foundLog = NoLog THEN "StatusNotFound"
    ELSE "Verdict"

\* the status asked before the age of the records
Stage_StatusBeforeAge(logs, allLogs, recentLogs, foundLog) ==
    IF Len(logs) = 0
    THEN IF Len(allLogs) = 0 THEN "NoAppsFlyerLogs" ELSE "NoDeepLinkLogs"
    ELSE IF foundLog = NoLog THEN "StatusNotFound"
    ELSE IF Len(recentLogs) = 0 THEN "NoRecentLogs"
    ELSE "Verdict"

\* lines 144-202: the first stage that fails, "Verdict" when none does
Stage(logs, allLogs, recentLogs, foundLog) ==
    IF Len(logs) = 0
    THEN IF Len(allLogs) = 0 THEN "NoAppsFlyerLogs" ELSE "NoDeepLinkLogs"
    ELSE IF Len(recentLogs) = 0 THEN "NoRecentLogs"
    ELSE IF foundLog = NoLog THEN "StatusNotFound"
    ELSE "Verdict"

\* lines 137-345: everything after the poll, run without a suspension point
VerifyDeepLinkResult(buffer, expectedDataState, nowMs) ==
    LET logs == getParsedAppsflyerFilters(DEEPLINK_KEYWORD, buffer, nowMs)
        allLogs == getParsedAppsflyerFilters("", buffer, nowMs)
        sinceMs == nowMs - 5 * 60 * 1000
        recentLogs == RecentLogs(logs, sinceMs)
        latestLog == IF recentLogs = <<>> THEN NoLog ELSE recentLogs[Len(recentLogs)]
        foundLog == LocateFound(recentLogs)
        stage == Stage(logs, allLogs, recentLogs, foundLog)
    IN  IF stage = "Verdict"
        THEN Verdict(foundLog, expectedDataState, logs, allLogs, recentLogs, sinceMs)
        ELSE Diagnostic(stage, logs, allLogs, recentLogs, sinceMs,
                        IF stage = "StatusNotFound" THEN latestLog ELSE NoLog)

-----------------------------------------------------------------------------
(* tools/verifyInAppEvent.ts *)

INAPP_KEYWORD == "INAPP-"

\* token: the first match of TASK_REGEX in the line, "" for no match (and for
\* the empty line); the result "" stands for undefined
extractTaskId(token, json) ==
    LET jsonTaskId == OrElse(Get(json, "task_id"), Get(json, "taskId"))
    IN  IF jsonTaskId.t = "string" /\ Trim(jsonTaskId.v) # ""
        THEN Trim(jsonTaskId.v)
        ELSE token

getEventName(payload) ==
    LET direct == Get(payload, "eventName")
        snake == Get(payload, "event_name")
    IN  IF direct.t = "string" /\ Trim(direct.v) # "" THEN direct
        ELSE IF snake.t = "string" /\ Trim(snake.v) # "" THEN snake
        ELSE Undefined

PreparedEvent(taskId, payload) ==
    [taskId |-> taskId, payload |-> payload, eventName |-> getEventName(payload)]

\* a map whose set leaves the value of a key already present
MapSet_KeepsFirst(events, event) ==
    IF \E i \in 1..Len(events) : events[i].taskId = event.taskId
    THEN events
    ELSE Append(events, event)

\* Map.prototype.set: a key already present keeps its place in the iteration order
MapSet(events, event) ==
    IF \E i \in 1..Len(events) : events[i].taskId = event.taskId
    THEN [i \in 1..Len(events) |->
            IF events[i].taskId = event.taskId THEN event ELSE events[i]]
    ELSE Append(events, event)

IsRelevant(line) == "AppsFlyer" \in line.has /\ INAPP_KEYWORD \in line.has

\* one marker taken for both
IsSuccessLine_EitherMarker(line) ==
    "execution finished" \in line.lower \/ "result: success" \in line.lower

IsSuccessLine(line) ==
    "execution finished" \in line.lower /\ "result: success" \in line.lower

ScanStart == [prepared |-> <<>>, success |-> {}, lastSeenTaskId |-> ""]

\* a scan that never falls back to the last seen task id
ScanLine_NoFallback(line, st) ==
    IF ~IsRelevant(line) THEN st
    ELSE LET json == extractJsonFromLine(line)
             explicitTaskId == extractTaskId(line.token, json)
             seen == [st EXCEPT !.lastSeenTaskId =
                         IF explicitTaskId # "" THEN explicitTaskId ELSE @]
         IN  IF explicitTaskId = "" THEN seen
             ELSE IF "preparing data" \in line.lower
             THEN IF json = NoJson THEN seen
                  ELSE [seen EXCEPT !.prepared =
                           MapSet(@, PreparedEvent(explicitTaskId, json))]
             ELSE IF IsSuccessLine(line)
             THEN [seen EXCEPT !.success = @ \cup {explicitTaskId}]
             ELSE seen

\* a scan in which a newly prepared event starts out not sent
ScanLine_PrepareResets(line, st) ==
    IF ~IsRelevant(line) THEN st
    ELSE LET json == extractJsonFromLine(line)
             explicitTaskId == extractTaskId(line.token, json)
             seen == [st EXCEPT !.lastSeenTaskId =
                         IF explicitTaskId # "" THEN explicitTaskId ELSE @]
             effectiveTaskId ==
                 IF explicitTaskId # "" THEN explicitTaskId ELSE st.lastSeenTaskId
         IN  IF effectiveTaskId = "" THEN seen
             ELSE IF "preparing data" \in line.lower
             THEN IF json = NoJson THEN seen
                  ELSE [seen EXCEPT !.prepared =
                                       MapSet(@, PreparedEvent(effectiveTaskId, json)),
                                    !.success = @ \ {effectiveTaskId}]
             ELSE IF IsSuccessLine(line)
             THEN [seen EXCEPT !.success = @ \cup {effectiveTaskId}]
             ELSE seen

\* lines 50-80: one iteration of the scan
ScanLine(line, st) ==
    IF ~IsRelevant(line) THEN st
    ELSE LET json == extractJsonFromLine(line)
             explicitTaskId == extractTaskId(line.token, json)
             seen == [st EXCEPT !.lastSeenTaskId =
                         IF explicitTaskId # "" THEN explicitTaskId ELSE @]
             effectiveTaskId ==
                 IF explicitTaskId # "" THEN explicitTaskId ELSE st.lastSeenTaskId
         IN  IF effectiveTaskId = "" THEN seen
             ELSE IF "preparing data" \in line.lower
             THEN IF json = NoJson THEN seen
                  ELSE [seen EXCEPT !.prepared =
                           MapSet(@, PreparedEvent(effectiveTaskId, json))]
             ELSE IF IsSuccessLine(line)
             THEN [seen EXCEPT !.success = @ \cup {effectiveTaskId}]
             ELSE seen

RECURSIVE ScanFrom(_, _, _)
ScanFrom(i, buffer, st) ==
    IF i > Len(buffer) THEN st
    ELSE ScanFrom(i + 1, buffer, ScanLine(buffer[i], st))

Correlate(event, success) ==
    LET sentByExecution == event.taskId \in success
    IN  [taskId |-> event.taskId, payload |-> event.payload,
         eventName |-> event.eventName,
         sent |-> sentByExecution,
         status |-> IF sentByExecution THEN "sent" ELSE "prepared",
         evidence |-> IF sentByExecution
                      THEN <<"execution finished with result: SUCCESS">>
                      ELSE <<>>]

getPreparedEventsByTask(buffer) ==
    LET st == ScanFrom(1, buffer, ScanStart)
    IN  [i \in 1..Len(st.prepared) |-> Correlate(st.prepared[i], st.success)]

NoEvent ==
    [taskId |-> "", payload |-> NoJson, eventName |-> Undefined, sent |-> FALSE,
     status |-> "none", evidence |-> <<>>]

\* Array.prototype.find for the sent test: the first sent event, NoEvent for none
RECURSIVE FindSent(_)
FindSent(events) ==
    IF events = <<>> THEN NoEvent
    ELSE IF Head(events).sent THEN Head(events) ELSE FindSent(Tail(events))

\* lines 157-161
RecentTaskIds(recentLogs) ==
    {extractTaskId("", recentLogs[i].json) : i \in 1..Len(recentLogs)} \ {""}

InAppResult(outcome, logs, recentLogs, nowMs, preparedEvents, recentTaskIds, event) ==
    [outcome |-> outcome, logs |-> logs, recentLogs |-> recentLogs, nowMs |-> nowMs,
     preparedEvents |-> preparedEvents, recentTaskIds |-> recentTaskIds,
     event |-> event]

\* no scoping by the recent task ids
ScopedPreparedEvents_Unscoped(preparedEvents, recentTaskIds) == preparedEvents

\* lines 163-166
ScopedPreparedEvents(preparedEvents, recentTaskIds) ==
    LET InScope(event) == event.taskId \in recentTaskIds
    IN  IF Cardinality(recentTaskIds) > 0
        THEN SelectSeq(preparedEvents, InScope)
        ELSE preparedEvents

\* lines 128-227: everything after the poll, run without a suspension point
VerifyInAppEventResult(eventName, buffer, nowMs) ==
    LET logs == getParsedAppsflyerFilters(INAPP_KEYWORD, buffer, nowMs)
        recentLogs == RecentLogs(logs, nowMs - RECENT_WINDOW_MS)
        preparedEvents == getPreparedEventsByTask(buffer)
        recentTaskIds == RecentTaskIds(recentLogs)
        scopedPreparedEvents == ScopedPreparedEvents(preparedEvents, recentTaskIds)
        Named(event) == event.eventName = Str(eventName)
        eventPrepared == SelectSeq(scopedPreparedEvents, Named)
        latestPreparedForEvent ==
            IF eventPrepared = <<>> THEN NoEvent ELSE eventPrepared[Len(eventPrepared)]
        latestSentForEvent == FindSent(Reverse(eventPrepared))
        Result(outcome, event) ==
            InAppResult(outcome, logs, recentLogs, nowMs, preparedEvents,
                        recentTaskIds, event)
    IN  IF Len(logs) = 0 THEN Result("NoLogs", NoEvent)
        ELSE IF Len(recentLogs) = 0 THEN Result("NoRecentLogs", NoEvent)
        ELSE IF latestSentForEvent # NoEvent THEN Result("Sent", latestSentForEvent)
        ELSE IF latestPreparedForEvent # NoEvent
        THEN Result("Prepared", latestPreparedForEvent)
        ELSE Result("NotFound", NoEvent)

-----------------------------------------------------------------------------
(* The lines and payloads the runs draw from *)

DeepLinkLine(stamp, body) == Line({"AppsFlyer", "deepLink"}, {}, "", stamp, body)

FoundDirectX ==
    [status |-> Str("FOUND"), is_deferred |-> Bool(FALSE), deep_link_value |-> Str("x")]

\* a deep-link callback logged now
FreshFound == DeepLinkLine(FullStamp(StartMs), JsonBody(FoundDirectX))
\* one logged exactly five minutes before the server started
EdgeFound ==
    DeepLinkLine(FullStamp(StartMs - RECENT_WINDOW_MS),
                 JsonBody([status |-> Str("FOUND"), is_deferred |-> Bool(TRUE),
                           deep_link_value |-> Str("old")]))
FreshNotFound ==
    DeepLinkLine(FullStamp(StartMs + PollStepMs), JsonBody([status |-> Str("NOT_FOUND")]))
\* no timestamp prefix
UnstampedFound == DeepLinkLine(NoStamp, JsonBody(FoundDirectX))
\* a short timestamp more than a day ahead of the clock: read as last year's
LastYearFound ==
    DeepLinkLine(ShortStamp(EndMs + DAY_MS + 1, 1), JsonBody(FoundDirectX))
\* a deep-link line whose brace span is no JSON
BrokenDeepLink == DeepLinkLine(FullStamp(StartMs), BadBody)
\* an SDK line that is no deep-link line
LaunchLine ==
    Line({"AppsFlyer", "LAUNCH-"}, {}, "", FullStamp(StartMs),
         JsonBody([uid |-> Str("u1")]))

SysLines ==
    {FreshFound, EdgeFound, FreshNotFound, UnstampedFound, LastYearFound,
     BrokenDeepLink, LaunchLine}

SysPayloads == {[deep_link_value |-> Str("y")]}

-----------------------------------------------------------------------------
(* The stream (logcat/stream.ts), the clock and the OneLink collaborator *)

\* the newest line is the one that does not fit
Push_DropsNewest(buffer, line) ==
    IF Len(buffer) < MaxBuffer THEN Append(buffer, line) ELSE buffer

\* a line arrives: it is appended, and the oldest line leaves a full buffer
Push(buffer, line) == LastN(Append(buffer, line), MaxBuffer)

\* only a stream that already runs is reused, not one that is still starting
startLogcatStream_ReusesRunningOnly ==
    streams' = IF streaming THEN streams ELSE streams + 1

\* ensureStreaming: the stream that exists is reused, one is started otherwise
startLogcatStream == streams' = IF streams > 0 THEN streams ELSE streams + 1

\* the start of the stream failed: no stream is left
StreamUnavailable == streams' = 0

\* the stream's data handler, for the first `limit` lines of a run
Deliver(lines, limit) ==
    /\ streaming
    /\ ingested < limit
    /\ \E line \in lines : logBuffer' = Push(logBuffer, line)
    /\ ingested' = ingested + 1
    /\ UNCHANGED <<streaming, latestDeepLinkExpectedData, now,
                   dlPc, dlWaited, dlResult, iaPc, iaWaited, iaArg, iaResult,
                   streams, cdFetched, sdkPc, sdkWaited, sdkResult, extraction, env, createVars, guardVars>>

Ingest(lines) == Deliver(lines, MaxIngest)

Tick ==
    /\ now < EndMs
    /\ now' = now + PollStepMs
    /\ UNCHANGED <<logBuffer, streaming, latestDeepLinkExpectedData,
                   dlPc, dlWaited, dlResult, iaPc, iaWaited, iaArg, iaResult, ingested,
                   streams, cdFetched, sdkPc, sdkWaited, sdkResult, extraction, env, createVars, guardVars>>

\* a store that keeps its first value
setLatestDeepLinkExpectedData_KeepsFirst(oneLinkUrl, payload) ==
    latestDeepLinkExpectedData' =
        IF latestDeepLinkExpectedData = NoExpectedData
        THEN ExpectedData(oneLinkUrl, payload, now)
        ELSE latestDeepLinkExpectedData

setLatestDeepLinkExpectedData(oneLinkUrl, payload) ==
    latestDeepLinkExpectedData' = ExpectedData(oneLinkUrl, payload, now)

NeverFetched == [oneLinkUrl |-> "", oneLinkData |-> NoJson]

\* createDeepLink, from the end of the signed fetch on.  answers: what the fetch
\* gave for result.data, NoJson standing for a failed fetch and for data that
\* is no object
CreateDeepLink(urls, answers) ==
    /\ \E oneLinkUrl \in urls, oneLinkData \in answers :
          /\ cdFetched' = [oneLinkUrl |-> oneLinkUrl, oneLinkData |-> oneLinkData]
          /\ IF oneLinkData # NoJson
             THEN setLatestDeepLinkExpectedData(oneLinkUrl, oneLinkData)
             ELSE UNCHANGED latestDeepLinkExpectedData
    /\ UNCHANGED <<logBuffer, streaming, now,
                   dlPc, dlWaited, dlResult, iaPc, iaWaited, iaArg, iaResult, ingested,
                   streams, sdkPc, sdkWaited, sdkResult, extraction, env, createVars, guardVars>>

\* the fetch answered with a JSON object
CreateDeepLinkFetched(payloads) == CreateDeepLink({"https://onelink/abc/def"}, payloads)

-----------------------------------------------------------------------------
(* verifyDeepLink, the handler *)

ErrorResult == [outcome |-> "Error"]

\* the handler is invoked: it runs up to await startLogcatStream(...)
DLInvoked ==
    /\ dlPc \in {"idle", "done"}
    /\ dlPc' = "starting"
    /\ startLogcatStream
    /\ dlWaited' = 0
    /\ dlResult' = NoResult
    /\ UNCHANGED <<logBuffer, streaming, latestDeepLinkExpectedData, now,
                   iaPc, iaWaited, iaArg, iaResult, ingested,
                   cdFetched, sdkPc, sdkWaited, sdkResult, extraction, env, createVars>>

\* the tool is called
DLCall == DLInvoked /\ UNCHANGED guardVars

\* the loop without its time limit
DLPollOrVerify_NoLimit(waited) ==
    IF Len(getParsedAppsflyerFilters(DEEPLINK_KEYWORD, logBuffer, now)) = 0
    THEN /\ dlPc' = "sleeping"
         /\ dlWaited' = waited
         /\ dlResult' = NoResult
    ELSE /\ dlPc' = "done"
         /\ dlWaited' = waited
         /\ dlResult' =
                VerifyDeepLinkResult(logBuffer, getLatestDeepLinkExpectedData, now)

\* a loop that ends on any SDK line, a deep-link record or not
DLPollOrVerify_AnyLine(waited) ==
    IF /\ waited < PollLimitMs
       /\ Len(getParsedAppsflyerFilters("", logBuffer, now)) = 0
    THEN /\ dlPc' = "sleeping"
         /\ dlWaited' = waited
         /\ dlResult' = NoResult
    ELSE /\ dlPc' = "done"
         /\ dlWaited' = waited
         /\ dlResult' =
                VerifyDeepLinkResult(logBuffer, getLatestDeepLinkExpectedData, now)

\* the loop test of lines 129-132 with `waited`, and what follows it: another
\* sleep, or lines 137-345 up to the return
DLPollOrVerify(waited) ==
    IF /\ waited < PollLimitMs
       /\ Len(getParsedAppsflyerFilters(DEEPLINK_KEYWORD, logBuffer, now)) = 0
    THEN /\ dlPc' = "sleeping"
         /\ dlWaited' = waited
         /\ dlResult' = NoResult
    ELSE /\ dlPc' = "done"
         /\ dlWaited' = waited
         /\ dlResult' =
                VerifyDeepLinkResult(logBuffer, getLatestDeepLinkExpectedData, now)

\* startLogcatStream resolves: the stream runs, the poll starts
DLStreamStarted ==
    /\ dlPc = "starting"
    /\ streams > 0
    /\ streaming' = TRUE
    /\ DLPollOrVerify(0)
    /\ UNCHANGED <<logBuffer, latestDeepLinkExpectedData, now,
                   iaPc, iaWaited, iaArg, iaResult, ingested,
                   streams, cdFetched, sdkPc, sdkWaited, sdkResult, extraction, env, createVars, guardVars>>

\* the handler without its catch block: the rejection leaves the call
DLStreamFailed_Escapes ==
    /\ dlPc = "starting"
    /\ ~streaming
    /\ StreamUnavailable
    /\ dlPc' = "thrown"
    /\ dlResult' = NoResult
    /\ UNCHANGED <<logBuffer, streaming, latestDeepLinkExpectedData, now, dlWaited,
                   iaPc, iaWaited, iaArg, iaResult, ingested,
                   cdFetched, sdkPc, sdkWaited, sdkResult, extraction, env, createVars, guardVars>>

\* startLogcatStream rejects: the catch block returns the error text
DLStreamFailed ==
    /\ dlPc = "starting"
    /\ ~streaming
    /\ StreamUnavailable
    /\ dlPc' = "done"
    /\ dlResult' = ErrorResult
    /\ UNCHANGED <<logBuffer, streaming, latestDeepLinkExpectedData, now, dlWaited,
                   iaPc, iaWaited, iaArg, iaResult, ingested,
                   cdFetched, sdkPc, sdkWaited, sdkResult, extraction, env, createVars, guardVars>>

\* the newest-to-oldest search done by reversing the shared buffer in place
DLWake_ReversesBuffer ==
    /\ dlPc = "sleeping"
    /\ DLPollOrVerify(dlWaited + PollStepMs)
    /\ logBuffer' = Reverse(logBuffer)
    /\ UNCHANGED <<streaming, latestDeepLinkExpectedData, now,
                   iaPc, iaWaited, iaArg, iaResult, ingested,
                   streams, cdFetched, sdkPc, sdkWaited, sdkResult, extraction, env, createVars, guardVars>>

\* the 200 ms timer fires
DLWake ==
    /\ dlPc = "sleeping"
    /\ DLPollOrVerify(dlWaited + PollStepMs)
    /\ UNCHANGED <<logBuffer, streaming, latestDeepLinkExpectedData, now,
                   iaPc, iaWaited, iaArg, iaResult, ingested,
                   streams, cdFetched, sdkPc, sdkWaited, sdkResult, extraction, env, createVars, guardVars>>

-----------------------------------------------------------------------------
(* verifyInAppEvent, the handler *)

EventNames == {"purchase", "login"}

IACall ==
    /\ iaPc \in {"idle", "done"}
    /\ iaPc' = "starting"
    /\ startLogcatStream
    /\ iaWaited' = 0
    /\ iaResult' = NoResult
    /\ \E eventName \in EventNames : iaArg' = eventName
    /\ UNCHANGED <<logBuffer, streaming, latestDeepLinkExpectedData, now,
                   dlPc, dlWaited, dlResult, ingested,
                   cdFetched, sdkPc, sdkWaited, sdkResult, extraction, env, createVars, guardVars>>

\* the loop test of lines 120-123 with `waited`, and what follows it: another
\* sleep, or lines 128-227 up to the return
IAPollOrVerify(waited) ==
    IF /\ waited < PollLimitMs
       /\ Len(getParsedAppsflyerFilters(INAPP_KEYWORD, logBuffer, now)) = 0
    THEN /\ iaPc' = "sleeping"
         /\ iaWaited' = waited
         /\ iaResult' = NoResult
    ELSE /\ iaPc' = "done"
         /\ iaWaited' = waited
         /\ iaResult' = VerifyInAppEventResult(iaArg, logBuffer, now)

IAStreamStarted ==
    /\ iaPc = "starting"
    /\ streams > 0
    /\ streaming' = TRUE
    /\ IAPollOrVerify(0)
    /\ UNCHANGED <<logBuffer, latestDeepLinkExpectedData, now,
                   dlPc, dlWaited, dlResult, iaArg, ingested,
                   streams, cdFetched, sdkPc, sdkWaited, sdkResult, extraction, env, createVars, guardVars>>

IAStreamFailed ==
    /\ iaPc = "starting"
    /\ ~streaming
    /\ StreamUnavailable
    /\ iaPc' = "done"
    /\ iaResult' = ErrorResult
    /\ UNCHANGED <<logBuffer, streaming, latestDeepLinkExpectedData, now, iaWaited,
                   dlPc, dlWaited, dlResult, iaArg, ingested,
                   cdFetched, sdkPc, sdkWaited, sdkResult, extraction, env, createVars, guardVars>>

IAWake ==
    /\ iaPc = "sleeping"
    /\ IAPollOrVerify(iaWaited + PollStepMs)
    /\ UNCHANGED <<logBuffer, streaming, latestDeepLinkExpectedData, now,
                   dlPc, dlWaited, dlResult, iaArg, ingested,
                   streams, cdFetched, sdkPc, sdkWaited, sdkResult, extraction, env, createVars, guardVars>>

-----------------------------------------------------------------------------
(* tools/verifyAppsFlyerSdk.ts *)

CONVERSION_KEYWORD == "CONVERSION-"
LAUNCH_KEYWORD == "LAUNCH-"

\* the values JavaScript's || and ! take for true
Truthy(value) ==
    CASE value.t \in {"undefined", "null"} -> FALSE
      [] value.t = "string" -> value.v # ""
      [] value.t = "boolean" -> value.v = "true"
      [] value.t = "number" -> value.v \notin {"0", "-0", "NaN"}
      [] OTHER -> TRUE

\* s[s.length - 1], NoLog for undefined
LastLog(s) == IF s = <<>> THEN NoLog ELSE s[Len(s)]

SdkResult(outcome, relevantLog, uid, afStatus) ==
    [outcome |-> outcome, relevantLog |-> relevantLog, uid |-> uid,
     afStatus |-> afStatus]

\* lines 61-98: from the end of the poll to the request for the install data
VerifyAppsFlyerSdkLogs(buffer, nowMs) ==
    LET conversionLogs == getParsedAppsflyerFilters(CONVERSION_KEYWORD, buffer, nowMs)
        launchLogs == getParsedAppsflyerFilters(LAUNCH_KEYWORD, buffer, nowMs)
        sinceMs == nowMs - RECENT_WINDOW_MS
        recentConversionLogs == RecentLogs(conversionLogs, sinceMs)
        recentLaunchLogs == RecentLogs(launchLogs, sinceMs)
        relevantLog ==
            IF recentConversionLogs # <<>> THEN LastLog(recentConversionLogs)
            ELSE LastLog(recentLaunchLogs)
        uid == IF Truthy(Get(relevantLog.json, "uid"))
               THEN Get(relevantLog.json, "uid")
               ELSE Get(relevantLog.json, "device_id")
    IN  IF relevantLog = NoLog
        THEN SdkResult("NoRecentLogs", NoLog, Undefined, Undefined)
        ELSE IF ~Truthy(uid)
        THEN SdkResult("MissingUid", relevantLog, uid, Undefined)
        ELSE SdkResult("Fetching", relevantLog, uid, Undefined)

\* lines 108-126: the answer of the install-data request is a JSON object
VerifyAppsFlyerSdkAnswer(result, json) ==
    LET afStatus == IF Truthy(Get(json, "af_status"))
                    THEN Get(json, "af_status") ELSE Str("Unknown")
    IN  SdkResult("Succeeded", result.relevantLog, result.uid, afStatus)

\* the tool is called: without a dev key or an app id it returns at once, with
\* both it runs up to await startLogcatStream(...)
SDKCall ==
    /\ sdkPc \in {"idle", "done"}
    /\ sdkWaited' = 0
    /\ \E hasKeys \in BOOLEAN :
          IF hasKeys
          THEN /\ sdkPc' = "starting"
               /\ startLogcatStream
               /\ sdkResult' = NoResult
          ELSE /\ sdkPc' = "done"
               /\ sdkResult' = [outcome |-> "MissingValues"]
               /\ UNCHANGED streams
    /\ UNCHANGED <<logBuffer, streaming, latestDeepLinkExpectedData, now,
                   dlPc, dlWaited, dlResult, iaPc, iaWaited, iaArg, iaResult, ingested,
                   cdFetched, extraction, env, createVars, guardVars>>

\* the loop test of line 49 with `waited`, and what follows it: another sleep,
\* or lines 61-106 up to the return or to the await of fetch
SDKPollOrVerify(waited) ==
    IF Len(logBuffer) = 0 /\ waited < PollLimitMs
    THEN /\ sdkPc' = "sleeping"
         /\ sdkWaited' = waited
         /\ sdkResult' = NoResult
    ELSE LET result == VerifyAppsFlyerSdkLogs(logBuffer, now)
         IN  /\ sdkPc' = IF result.outcome = "Fetching" THEN "fetching" ELSE "done"
             /\ sdkWaited' = waited
             /\ sdkResult' = result

SDKStreamStarted ==
    /\ sdkPc = "starting"
    /\ streams > 0
    /\ streaming' = TRUE
    /\ SDKPollOrVerify(0)
    /\ UNCHANGED <<logBuffer, latestDeepLinkExpectedData, now,
                   dlPc, dlWaited, dlResult, iaPc, iaWaited, iaArg, iaResult, ingested,
                   streams, cdFetched, extraction, env, createVars, guardVars>>

\* startLogcatStream rejects: the catch block of lines 53-59 returns the error text
SDKStreamFailed ==
    /\ sdkPc = "starting"
    /\ ~streaming
    /\ StreamUnavailable
    /\ sdkPc' = "done"
    /\ sdkResult' = [outcome |-> "LogsError"]
    /\ UNCHANGED <<logBuffer, streaming, latestDeepLinkExpectedData, now, sdkWaited,
                   dlPc, dlWaited, dlResult, iaPc, iaWaited, iaArg, iaResult, ingested,
                   cdFetched, extraction, env, createVars, guardVars>>

SDKWake ==
    /\ sdkPc = "sleeping"
    /\ SDKPollOrVerify(sdkWaited + PollStepMs)
    /\ UNCHANGED <<logBuffer, streaming, latestDeepLinkExpectedData, now,
                   dlPc, dlWaited, dlResult, iaPc, iaWaited, iaArg, iaResult, ingested,
                   streams, cdFetched, extraction, env, createVars, guardVars>>

\* what the install-data request can answer with
InstallData == {[af_status |-> Str("Organic")], [install_time |-> Str("t")]}

\* fetch and res.json() resolve with a JSON object
SDKFetched ==
    /\ sdkPc = "fetching"
    /\ sdkPc' = "done"
    /\ \E json \in InstallData : sdkResult' = VerifyAppsFlyerSdkAnswer(sdkResult, json)
    /\ UNCHANGED <<logBuffer, streaming, latestDeepLinkExpectedData, now, sdkWaited,
                   dlPc, dlWaited, dlResult, iaPc, iaWaited, iaArg, iaResult, ingested,
                   streams, cdFetched, extraction, env, createVars, guardVars>>

\* fetch rejects, res.json() throws, or the answer is null: the catch block of
\* lines 127-136 returns the error text
SDKFetchFailed ==
    /\ sdkPc = "fetching"
    /\ sdkPc' = "done"
    /\ sdkResult' = [outcome |-> "DataError"]
    /\ UNCHANGED <<logBuffer, streaming, latestDeepLinkExpectedData, now, sdkWaited,
                   dlPc, dlWaited, dlResult, iaPc, iaWaited, iaArg, iaResult, ingested,
                   streams, cdFetched, extraction, env, createVars, guardVars>>

-----------------------------------------------------------------------------
(* logcat/parse.ts, extractJsonFromLine on the text of a line.  A text is a *)
(* sequence of pieces: "{", "}", ",", a member "key":value whose value is a *)
(* number or null, and a run of other characters.                           *)

Piece(kind, key, raw) == [kind |-> kind, key |-> key, raw |-> raw]
OpenBrace == Piece("{", "", "")
CloseBrace == Piece("}", "", "")
Comma == Piece(",", "", "")
OtherText == Piece("text", "", "")
Member(key, raw) == Piece("member", key, raw)

\* the lazy /{.*?}/s: from the first "{" to the first "}" after it
BraceSpan_ToFirstClose(text) ==
    LET opens == {i \in 1..Len(text) : text[i] = OpenBrace}
        first == CHOOSE i \in opens : \A j \in opens : i <= j
        closes == {i \in 1..Len(text) : text[i] = CloseBrace /\ i > first}
        close == CHOOSE i \in closes : \A j \in closes : i <= j
    IN  IF opens = {} \/ closes = {} THEN <<>> ELSE SubSeq(text, first, close)

\* line 64, line.match(/{.*}/s): from the first "{" to the last "}" after it,
\* <<>> for no match
BraceSpan(text) ==
    LET opens == {i \in 1..Len(text) : text[i] = OpenBrace}
        first == CHOOSE i \in opens : \A j \in opens : i <= j
        closes == {i \in 1..Len(text) : text[i] = CloseBrace /\ i > first}
        last == CHOOSE i \in closes : \A j \in closes : i >= j
    IN  IF opens = {} \/ closes = {} THEN <<>> ELSE SubSeq(text, first, last)

\* JSON.parse on the text of a value: 1e999 is beyond the doubles and reads as
\* Infinity
ValueOf(raw) ==
    CASE raw = "null" -> Null
      [] raw = "1.0" -> Num("1")
      [] raw = "1e999" -> Num("Infinity")
      [] OTHER -> Num(raw)

\* line 68, JSON.parse(match[0]) on a span from "{" to "}": the object of its
\* members, the last one of a repeated key, and NoJson where JSON.parse throws
JSONparse(span) ==
    LET inner == SubSeq(span, 2, Len(span) - 1)
        wellFormed ==
            /\ Len(inner) = 0 \/ Len(inner) % 2 = 1
            /\ \A i \in 1..Len(inner) :
                  IF i % 2 = 1 THEN inner[i].kind = "member" ELSE inner[i] = Comma
        keys == {inner[i].key : i \in 1..Len(inner)} \ {""}
        LastOf(key) ==
            CHOOSE i \in 1..Len(inner) :
                /\ inner[i].key = key
                /\ \A j \in 1..Len(inner) : inner[j].key = key => j <= i
    IN  IF wellFormed
        THEN [key \in keys |-> ValueOf(inner[LastOf(key)].raw)]
        ELSE NoJson

\* lines 63-71 on a text: what extractJsonFromLine finds in it
BodyOf(text) ==
    LET span == BraceSpan(text)
    IN  IF span = <<>> THEN NoBody
        ELSE IF JSONparse(span) = NoJson THEN BadBody
        ELSE JsonBody(JSONparse(span))

\* the line with this text
TextLine(text) == Line({}, {}, "", NoStamp, BodyOf(text))

\* JSON.stringify on a value: Infinity has no JSON text and is written null
TextOf(value) ==
    CASE value.t = "null" -> "null"
      [] value = Num("Infinity") -> "null"
      [] OTHER -> value.v

\* JSON.stringify on an object
JSONstringify(obj) ==
    LET keys == DOMAIN obj
        n == Cardinality(keys)
        order == CHOOSE seq \in [1..n -> keys] : \A key \in keys : \E i \in 1..n : seq[i] = key
        MemberAt(i) == Member(order[i], TextOf(obj[order[i]]))
    IN  <<OpenBrace>>
        \o [i \in 1..(IF n = 0 THEN 0 ELSE 2 * n - 1) |->
              IF i % 2 = 1 THEN MemberAt((i + 1) \div 2) ELSE Comma]
        \o <<CloseBrace>>

NoExtraction == [pc |-> "none", line |-> <<>>, json |-> NoJson, first |-> NoJson]

\* extractJsonFromLine is called on the line
ExtractJson ==
    /\ extraction.pc \in {"line", "text"}
    /\ LET json == extractJsonFromLine(TextLine(extraction.line))
       IN  extraction' =
               [extraction EXCEPT
                  !.json = json,
                  !.first = IF extraction.pc = "line" THEN json ELSE @,
                  !.pc = IF extraction.pc = "line" THEN "parsed" ELSE "reparsed"]
    /\ UNCHANGED <<logBuffer, streaming, latestDeepLinkExpectedData, now,
                   dlPc, dlWaited, dlResult, iaPc, iaWaited, iaArg, iaResult, ingested,
                   streams, cdFetched, sdkPc, sdkWaited, sdkResult, env, createVars, guardVars>>

\* the object it returned is written as JSON, which is the next line
Stringify ==
    /\ extraction.pc = "parsed"
    /\ extraction.json # NoJson
    /\ extraction' =
           [extraction EXCEPT !.line = JSONstringify(extraction.json), !.pc = "text"]
    /\ UNCHANGED <<logBuffer, streaming, latestDeepLinkExpectedData, now,
                   dlPc, dlWaited, dlResult, iaPc, iaWaited, iaArg, iaResult, ingested,
                   streams, cdFetched, sdkPc, sdkWaited, sdkResult, env, createVars, guardVars>>

-----------------------------------------------------------------------------
(* The environment, createDeepLink and the credential guard at server start *)

Env(devKey, appId) == [DEV_KEY |-> devKey, APP_ID |-> appId]

\* credentials that pass the guard
ValidEnv == Env(Str("k"), Str("com.app"))

NoArgs ==
    [oneLinkUrl |-> Undefined, devKey |-> Undefined,
     includeUriScheme |-> Undefined, hasSha256 |-> Undefined]

\* oneTimeResult = null
NotValidated == [null |-> TRUE]

\* the calls of guarded tools the model follows at a time
Calls == 1..MaxCalls

\* a call of a guarded tool: where it is, the validation run whose promise it
\* awaits (0: a promise of the recorded result), whether it started that run,
\* the validation it received, and whether it returned an error result
IdleCall ==
    [pc |-> "idle", tool |-> "", awaits |-> 0, starter |-> FALSE,
     validation |-> NotValidated, isError |-> FALSE]

\* createDeepLink and the guard before their first call, in environment e
StartIn(e) ==
    /\ env = e
    /\ cdPc = "idle" /\ cdArgs = NoArgs /\ cdResult = NoResult
    /\ oneTimeResult = NotValidated
    /\ inFlight = 0
    /\ runs = <<>>
    /\ guardCalls = [c \in Calls |-> IdleCall]

ToolsAtStart == StartIn(ValidEnv)

-----------------------------------------------------------------------------
(* tools/createDeepLink.ts, the handler *)

\* url.pathname.split("/") on the URLs of the model
PathnameSplit(oneLinkUrl) ==
    CASE oneLinkUrl = "https://onelink/abc/def" -> <<"", "abc", "def">>
      [] oneLinkUrl = "https://onelink/abc//def/" -> <<"", "abc", "", "def", "">>
      [] oneLinkUrl = "https://onelink/abc" -> <<"", "abc">>
      [] OTHER -> <<"", "">>

NonEmpty(part) == part # ""

NoIds == [null |-> TRUE]

parseOneLinkIds(oneLinkUrl) ==
    LET pathParts == SelectSeq(PathnameSplit(oneLinkUrl), NonEmpty)
    IN  IF Len(pathParts) < 2 THEN NoIds
        ELSE [oneLinkId |-> pathParts[1], shortLinkId |-> pathParts[2]]

\* a parsed JSON object or array as a JavaScript value, the array as the
\* object of its indexes
Obj(o) == [t |-> "object", v |-> o]
Arr(a) == [t |-> "array", v |-> a]

\* typeof value
TypeOf(value) == IF value.t \in {"null", "array"} THEN "object" ELSE value.t

\* fetchOneLinkDataSigned rejected: no response, a status that is not ok, or a
\* body that is no JSON
FetchThrows == [kind |-> "throws", data |-> Undefined]
\* it resolved with { data }
FetchGives(data) == [kind |-> "data", data |-> data]

\* what spawnSync("keytool", ...) gives: an error, a non-zero exit code, an
\* output without a fingerprint, an output with one
KeytoolRuns == {"error", "exit1", "nosha", "sha"}

\* lines 197-270: the SHA-256 step and the final text
ShaStep(hasSha256, keytool) ==
    IF hasSha256 = Str("no")
    THEN CASE keytool = "error" -> "KeytoolError"
           [] keytool = "exit1" -> "KeytoolFailed"
           [] keytool = "nosha" -> "NoSha256"
           [] OTHER -> "Steps"
    ELSE "Steps"

CreateResult(outcome, oneLinkData, note) ==
    [outcome |-> outcome, oneLinkData |-> oneLinkData, note |-> note]

\* the handler is invoked with args: lines 127-170 return a prompt or the
\* URL error; without a dev key the handler runs on to its return; with one it
\* runs up to the await of the signed fetch
CDInvoked(args) ==
    /\ cdPc \in {"idle", "done"}
    /\ cdArgs' = args
    /\ LET devKey == OrElse(args.devKey, env.DEV_KEY)
       IN  IF ~Truthy(args.oneLinkUrl)
           THEN cdPc' = "done" /\ cdResult' = CreateResult("AskOneLinkUrl", Undefined, "")
           ELSE IF args.includeUriScheme = Undefined
           THEN cdPc' = "done" /\ cdResult' = CreateResult("AskUriScheme", Undefined, "")
           ELSE IF args.hasSha256 = Undefined
           THEN cdPc' = "done" /\ cdResult' = CreateResult("AskSha256", Undefined, "")
           ELSE IF parseOneLinkIds(args.oneLinkUrl.v) = NoIds
           THEN cdPc' = "done" /\ cdResult' = CreateResult("NoIds", Undefined, "")
           ELSE IF ~Truthy(devKey)
           THEN /\ cdPc' = "done"
                /\ \E keytool \in KeytoolRuns :
                      cdResult' = CreateResult(ShaStep(args.hasSha256, keytool),
                                               Undefined, "skipped")
           ELSE cdPc' = "fetching" /\ cdResult' = NoResult
    /\ UNCHANGED <<logBuffer, streaming, latestDeepLinkExpectedData, now,
                   dlPc, dlWaited, dlResult, iaPc, iaWaited, iaArg, iaResult, ingested,
                   streams, cdFetched, sdkPc, sdkWaited, sdkResult, extraction, env>>

\* the tool is called with one of argsSet
CDCall(argsSet) ==
    /\ \E args \in argsSet : CDInvoked(args)
    /\ UNCHANGED guardVars

\* a handler that stores whatever the fetch gave
CDFetchSettled_StoresAnyData(answers) ==
    /\ cdPc = "fetching"
    /\ cdPc' = "done"
    /\ \E answer \in answers, keytool \in KeytoolRuns :
          /\ IF answer.kind = "data"
             THEN setLatestDeepLinkExpectedData(cdArgs.oneLinkUrl.v, answer.data.v)
             ELSE UNCHANGED latestDeepLinkExpectedData
          /\ cdResult' =
                CreateResult(ShaStep(cdArgs.hasSha256, keytool), answer.data,
                             IF answer.kind = "data" THEN "" ELSE "failed")
    /\ UNCHANGED <<logBuffer, streaming, now, cdArgs,
                   dlPc, dlWaited, dlResult, iaPc, iaWaited, iaArg, iaResult, ingested,
                   streams, cdFetched, sdkPc, sdkWaited, sdkResult, extraction, env,
                   guardVars>>

\* the signed fetch settles with one of answers: lines 183-270, the store
\* written when the data is truthy and typeof "object", then the SHA-256 step
CDFetchSettled(answers) ==
    /\ cdPc = "fetching"
    /\ cdPc' = "done"
    /\ \E answer \in answers, keytool \in KeytoolRuns :
          /\ IF /\ answer.kind = "data"
                /\ Truthy(answer.data)
                /\ TypeOf(answer.data) = "object"
             THEN setLatestDeepLinkExpectedData(cdArgs.oneLinkUrl.v, answer.data.v)
             ELSE UNCHANGED latestDeepLinkExpectedData
          /\ cdResult' =
                CreateResult(ShaStep(cdArgs.hasSha256, keytool), answer.data,
                             IF answer.kind = "data" THEN "" ELSE "failed")
    /\ UNCHANGED <<logBuffer, streaming, now, cdArgs,
                   dlPc, dlWaited, dlResult, iaPc, iaWaited, iaArg, iaResult, ingested,
                   streams, cdFetched, sdkPc, sdkWaited, sdkResult, extraction, env,
                   guardVars>>

-----------------------------------------------------------------------------
(* The credential guard (assertAppsFlyerCredentials and the wrapper that    *)
(* installAppsFlyerCredentialGuard puts around every tool handler)          *)

GuardResult(ok, message) == [ok |-> ok, message |-> message]

\* process.env.X?.trim()
TrimmedEnv(value) == IF value = Undefined THEN Undefined ELSE Str(Trim(value.v))

\* the characters of the application ids of the model
Chars(appID) ==
    CASE appID = "a.b" -> <<"a", ".", "b">>
      [] appID = "A.b_1" -> <<"A", ".", "b", "_", "1">>
      [] appID = "a.b-c" -> <<"a", ".", "b", "-", "c">>
      [] appID = "a" -> <<"a">>
      [] appID = "a-b" -> <<"a", "-", "b">>
      [] appID = "a.1b" -> <<"a", ".", "1", "b">>
      [] appID = "a..b" -> <<"a", ".", ".", "b">>
      [] appID = "a.b." -> <<"a", ".", "b", ".">>
      [] appID = "a.b-1" -> <<"a", ".", "b", "-", "1">>
      [] appID = "a-b.c" -> <<"a", "-", "b", ".", "c">>
      [] appID = "a.b-c-d" -> <<"a", ".", "b", "-", "c", "-", "d">>
      [] appID = "a b.c" -> <<"a", " ", "b", ".", "c">>
      [] appID = "com.app" -> <<"c", "o", "m", ".", "a", "p", "p">>
      [] OTHER -> <<>>

\* [A-Za-z] and [A-Za-z\d_]
IsLetter(ch) == ch \in {"a", "b", "c", "d", "m", "o", "p", "A"}
IsWordChar(ch) == IsLetter(ch) \/ ch \in {"1", "_"}

\* [A-Za-z][A-Za-z\d_]* on the characters from..to of chars
IsSegment(chars, from, to) ==
    /\ from <= to
    /\ IsLetter(chars[from])
    /\ \A i \in from..to : IsWordChar(chars[i])

\* ^([A-Za-z][A-Za-z\d_]*\.)+[A-Za-z][A-Za-z\d_]*$ on chars[1..to]: the dots cut
\* it into two or more segments
IsDotted(chars, to) ==
    LET dots == { i \in 1..to : chars[i] = "." }
        cuts == {0} \cup dots \cup {to + 1}
    IN  /\ dots # {}
        /\ \A i \in cuts \ {to + 1} :
              LET next == CHOOSE j \in cuts : j > i /\ \A k \in cuts : k > i => j <= k
              IN  IsSegment(chars, i + 1, next - 1)

\* the two patterns of lines 29-30: dotted segments, and dotted segments
\* followed by a hyphen and one more segment
checkAndroidBundle(appID) ==
    LET chars == Chars(appID)
    IN  \/ IsDotted(chars, Len(chars))
        \/ \E h \in 1..Len(chars) :
              /\ chars[h] = "-"
              /\ IsDotted(chars, h - 1)
              /\ IsSegment(chars, h + 1, Len(chars))

missingCredentialsResult(devKey, appId) == GuardResult(FALSE, "MissingValues")

\* what the precheck request gives: a response with a status, or a rejection
\* of fetch or of response.text()
Answered(status) == [kind |-> "status", status |-> status]
Rejected == [kind |-> "error", status |-> 0]
NoResponse == [kind |-> "none", status |-> 0]

\* a precheck that takes "no attribution data" for a failure
validateAgainstAppsFlyer_404Fails(response) ==
    IF response.kind = "error" THEN GuardResult(FALSE, "PrecheckNotRun")
    ELSE IF response.status = 200 THEN GuardResult(TRUE, "")
    ELSE IF response.status = 403 THEN GuardResult(FALSE, "Forbidden")
    ELSE GuardResult(FALSE, "PrecheckFailed")

\* lines 65-117: the result for what the request gave
validateAgainstAppsFlyer(response) ==
    IF response.kind = "error" THEN GuardResult(FALSE, "PrecheckNotRun")
    ELSE IF response.status = 200 THEN GuardResult(TRUE, "")
    ELSE IF response.status = 404 THEN GuardResult(TRUE, "")
    ELSE IF response.status = 403 THEN GuardResult(FALSE, "Forbidden")
    ELSE GuardResult(FALSE, "PrecheckFailed")

\* a validation run: the promise of the async function of lines 129-153
SettledRun(result) ==
    [settled |-> TRUE, result |-> result, requested |-> FALSE, response |-> NoResponse]
PendingRun ==
    [settled |-> FALSE, result |-> NotValidated, requested |-> TRUE,
     response |-> NoResponse]

\* lines 130-150: the run up to its return or to the await of fetch (line 66)
StartedRun ==
    LET devKey == TrimmedEnv(env.DEV_KEY)
        appId == TrimmedEnv(env.APP_ID)
    IN  IF ~Truthy(devKey) \/ ~Truthy(appId)
        THEN SettledRun(missingCredentialsResult(devKey, appId))
        ELSE IF ~checkAndroidBundle(appId.v)
        THEN SettledRun(GuardResult(FALSE, "BadAppIdFormat"))
        ELSE PendingRun

NoHandler ==
    UNCHANGED <<logBuffer, streaming, latestDeepLinkExpectedData, now,
                dlPc, dlWaited, dlResult, iaPc, iaWaited, iaArg, iaResult, ingested,
                streams, cdFetched, sdkPc, sdkWaited, sdkResult, extraction, env,
                createVars>>

Awaiting(tool, run, starter, validation) ==
    [pc |-> "awaiting", tool |-> tool, awaits |-> run, starter |-> starter,
     validation |-> validation, isError |-> FALSE]

\* a guard that starts a run whenever no result is recorded yet
GuardedCall_NoInFlightCheck(c, tool) ==
    /\ guardCalls[c].pc \in {"idle", "refused", "admitted"}
    /\ IF oneTimeResult # NotValidated
       THEN /\ guardCalls' = [guardCalls EXCEPT ![c] = Awaiting(tool, 0, FALSE, oneTimeResult)]
            /\ UNCHANGED <<oneTimeResult, inFlight, runs>>
       ELSE /\ runs' = Append(runs, StartedRun)
            /\ inFlight' = Len(runs) + 1
            /\ oneTimeResult' =
                  IF StartedRun.settled THEN StartedRun.result ELSE oneTimeResult
            /\ guardCalls' =
                  [guardCalls EXCEPT ![c] = Awaiting(tool, Len(runs) + 1, TRUE, NotValidated)]
    /\ NoHandler

\* a guarded tool is called: the wrapper calls assertAppsFlyerCredentials, which
\* runs up to its return (lines 121-127) or to its await (line 156), a new
\* validation run started on the way when there is neither a result nor a run
GuardedCall(c, tool) ==
    /\ guardCalls[c].pc \in {"idle", "refused", "admitted"}
    /\ IF oneTimeResult # NotValidated
       THEN /\ guardCalls' = [guardCalls EXCEPT ![c] = Awaiting(tool, 0, FALSE, oneTimeResult)]
            /\ UNCHANGED <<oneTimeResult, inFlight, runs>>
       ELSE IF inFlight # 0
       THEN /\ guardCalls' = [guardCalls EXCEPT ![c] = Awaiting(tool, inFlight, FALSE, NotValidated)]
            /\ UNCHANGED <<oneTimeResult, inFlight, runs>>
       ELSE /\ runs' = Append(runs, StartedRun)
            /\ inFlight' = Len(runs) + 1
            /\ oneTimeResult' =
                  IF StartedRun.settled THEN StartedRun.result ELSE oneTimeResult
            /\ guardCalls' =
                  [guardCalls EXCEPT ![c] = Awaiting(tool, Len(runs) + 1, TRUE, NotValidated)]
    /\ NoHandler

\* the precheck request of run r settles with response: lines 71-117 and
\* 151-152, the result recorded and the run's promise fulfilled
PrecheckSettled(r, response) ==
    /\ r \in 1..Len(runs)
    /\ ~runs[r].settled
    /\ LET result == validateAgainstAppsFlyer(response)
       IN  /\ runs' = [runs EXCEPT ![r] = [settled |-> TRUE, result |-> result,
                                           requested |-> TRUE, response |-> response]]
           /\ oneTimeResult' = result
    /\ UNCHANGED <<inFlight, guardCalls>>
    /\ NoHandler

\* the handler of tool is invoked
ToolInvoked(tool, argsSet) ==
    IF tool = "verifyDeepLink" THEN DLInvoked
    ELSE \E args \in argsSet : CDInvoked(args)

\* what the promise call c awaits was fulfilled with
ValidationOf(call) ==
    IF call.awaits = 0 THEN call.validation ELSE runs[call.awaits].result

\* a wrapper that invokes the handler whatever the validation says
GuardResumed_IgnoresValidation(c, argsSet) ==
    /\ guardCalls[c].pc = "awaiting"
    /\ guardCalls[c].awaits # 0 => runs[guardCalls[c].awaits].settled
    /\ inFlight' = IF guardCalls[c].starter THEN 0 ELSE inFlight
    /\ UNCHANGED <<oneTimeResult, runs>>
    /\ guardCalls' = [guardCalls EXCEPT ![c].pc = "admitted",
                                        ![c].validation = ValidationOf(guardCalls[c])]
    /\ ToolInvoked(guardCalls[c].tool, argsSet)

\* the promise call c awaits is fulfilled and the call goes on: the call that
\* started the run clears inFlight (lines 155-159); a validation that is not ok
\* gives the error result (lines 168-180), one that is ok invokes the handler
\* (line 182)
GuardResumed(c, argsSet) ==
    /\ guardCalls[c].pc = "awaiting"
    /\ guardCalls[c].awaits # 0 => runs[guardCalls[c].awaits].settled
    /\ inFlight' = IF guardCalls[c].starter THEN 0 ELSE inFlight
    /\ UNCHANGED <<oneTimeResult, runs>>
    /\ IF ~ValidationOf(guardCalls[c]).ok
       THEN /\ guardCalls' = [guardCalls EXCEPT ![c].pc = "refused",
                                               ![c].validation = ValidationOf(guardCalls[c]),
                                               ![c].isError = TRUE]
            /\ NoHandler
       ELSE /\ guardCalls' = [guardCalls EXCEPT ![c].pc = "admitted",
                                               ![c].validation = ValidationOf(guardCalls[c])]
            /\ ToolInvoked(guardCalls[c].tool, argsSet)

-----------------------------------------------------------------------------
(* The server from its start, with the deep-link tools *)

Init ==
    /\ logBuffer = <<>>
    /\ streaming = FALSE
    /\ latestDeepLinkExpectedData = NoExpectedData
    /\ now = StartMs
    /\ dlPc = "idle" /\ dlWaited = 0 /\ dlResult = NoResult
    /\ iaPc = "idle" /\ iaWaited = 0 /\ iaArg = "" /\ iaResult = NoResult
    /\ ingested = 0
    /\ streams = 0
    /\ cdFetched = NeverFetched
    /\ sdkPc = "idle" /\ sdkWaited = 0 /\ sdkResult = NoResult
    /\ extraction = NoExtraction
    /\ ToolsAtStart

Next ==
    \/ Ingest(SysLines)
    \/ Tick
    \/ CreateDeepLinkFetched(SysPayloads)
    \/ DLCall
    \/ DLStreamStarted
    \/ DLStreamFailed
    \/ DLWake

Spec == Init /\ [][Next]_vars

-----------------------------------------------------------------------------
(* verifyDeepLink on one fresh deep-link line and one stored payload: the   *)
(* callback's fields and the expected fields range over the field table.    *)

FieldKeys ==
    {"deep_link_value", "deep_link_sub1", "af_sub1", "af_sub2", "af_sub3",
     "af_sub4", "af_sub5", "pid", "media_source", "c", "campaign"}

ReceivedValues == {Str("x"), Str(" "), Null, Num("1")}

ExpectedValues ==
    {Str("x"), Str("y"), Str("1"), Str(" "), Null, Bool(FALSE), Str("false"),
     Str("FOUND")}

NestedDirect == Str("{\"is_deferred\":false}")
NestedDeferred == Str("{\"is_deferred\":true,\"deep_link_value\":\"n\"}")
NestedValueOnly == Str("{\"deep_link_value\":\"n\"}")

\* the callback's status and the places is_deferred can be read from
CallbackBases ==
    { [status |-> Str("FOUND")],
      [status |-> Str("FOUND"), is_deferred |-> Bool(FALSE)],
      [status |-> Str("FOUND"), is_deferred |-> Bool(TRUE)],
      [status |-> Str("FOUND"), is_deferred |-> Str("false")],
      [status |-> Str("FOUND"), is_deferred |-> Null],
      [status |-> Str("FOUND"), deepLink |-> NestedDirect],
      [status |-> Str("FOUND"), deeplink |-> NestedDeferred],
      [status |-> Str("FOUND"), is_deferred |-> Str("false"), deepLink |-> NestedDirect],
      [status |-> Str("FOUND"), is_deferred |-> Bool(TRUE), deepLink |-> NestedDirect],
      [status |-> Str("FOUND"), deepLink |-> NestedValueOnly, deeplink |-> NestedDirect],
      [status |-> Str("FOUND"), deepLink |-> Str("oops"), deeplink |-> NestedDirect] }

CallbackJsons ==
    CallbackBases
    \cup { (k :> v) @@ base : k \in FieldKeys, v \in ReceivedValues, base \in CallbackBases }
    \cup { [status |-> Str("FOUND"), is_deferred |-> Bool(FALSE),
            pid |-> p, media_source |-> Str("m")] : p \in {Null, Str("x")} }

FieldLines ==
    { DeepLinkLine(FullStamp(StartMs), JsonBody(json)) : json \in CallbackJsons }
    \cup {BrokenDeepLink}

ExpectedPayloads ==
    { <<>> }
    \cup { (k :> v) : k \in FieldKeys \cup {"status", "is_deferred"}, v \in ExpectedValues }
    \cup { [pid |-> p, media_source |-> Str("x")] : p \in {Null, Str("m")} }

FieldStates ==
    {NoExpectedData}
    \cup { ExpectedData("https://onelink/abc/def", payload, StartMs) :
             payload \in ExpectedPayloads }

InitFields ==
    /\ logBuffer \in { <<line>> : line \in FieldLines }
    /\ streaming = TRUE
    /\ latestDeepLinkExpectedData \in FieldStates
    /\ now = StartMs
    /\ dlPc = "idle" /\ dlWaited = 0 /\ dlResult = NoResult
    /\ iaPc = "idle" /\ iaWaited = 0 /\ iaArg = "" /\ iaResult = NoResult
    /\ ingested = 1
    /\ streams = 1
    /\ cdFetched = NeverFetched
    /\ sdkPc = "idle" /\ sdkWaited = 0 /\ sdkResult = NoResult
    /\ extraction = NoExtraction
    /\ ToolsAtStart

NextFields ==
    \/ DLCall
    \/ DLStreamStarted
    \/ DLWake

SpecFields == InitFields /\ [][NextFields]_vars

-----------------------------------------------------------------------------
(* verifyInAppEvent on the buffers of in-app lines *)

InAppLine(lower, token, stamp, body) ==
    Line({"AppsFlyer", "INAPP-"}, lower, token, stamp, body)

SuccessMarkers == {"execution finished", "result: success"}
Fresh == FullStamp(StartMs)
Stale == FullStamp(StartMs - RECENT_WINDOW_MS - 1)

\* "... INAPP-n: preparing data: {"eventName":...}"
Prep(token, stamp, name) ==
    InAppLine({"preparing data"}, token, stamp, JsonBody([eventName |-> Str(name)]))

InAppLines ==
    { Prep("INAPP-1", Fresh, "purchase"),
      Prep("INAPP-2", Fresh, "purchase"),
      Prep("INAPP-1", Stale, "login"),
      \* the task id in the JSON only, the name under event_name
      InAppLine({"preparing data"}, "", Fresh,
                JsonBody([event_name |-> Str("login"), taskId |-> Str("T3")])),
      \* "preparing data" with a brace span that is no JSON
      InAppLine({"preparing data"}, "INAPP-2", Fresh, BadBody),
      \* "... INAPP-1: execution finished ... result: SUCCESS"
      InAppLine(SuccessMarkers, "INAPP-1", Fresh, NoBody),
      \* a success line with no task id of its own
      InAppLine(SuccessMarkers, "", Fresh, NoBody),
      \* a success line with the task id in its JSON, padded
      InAppLine(SuccessMarkers, "INAPP-2", Fresh,
                JsonBody([task_id |-> Str(" INAPP-2 ")])),
      \* "execution finished" with another result
      InAppLine({"execution finished"}, "INAPP-1", Fresh, NoBody),
      \* one logcat chunk holding the prepare and the success text of INAPP-1
      InAppLine({"preparing data"} \cup SuccessMarkers, "INAPP-1", Fresh,
                JsonBody([eventName |-> Str("purchase")])),
      \* a success text on a line that is no in-app line
      Line({"AppsFlyer"}, SuccessMarkers, "", Fresh, NoBody) }

RECURSIVE SeqsUpTo(_, _)
SeqsUpTo(S, n) ==
    IF n = 0 THEN {<<>>}
    ELSE LET shorter == SeqsUpTo(S, n - 1)
         IN  shorter \cup { Append(s, x) : s \in shorter, x \in S }

InitInApp ==
    /\ logBuffer \in SeqsUpTo(InAppLines, MaxBuffer)
    /\ streaming = TRUE
    /\ latestDeepLinkExpectedData = NoExpectedData
    /\ now = StartMs
    /\ dlPc = "idle" /\ dlWaited = 0 /\ dlResult = NoResult
    /\ iaPc = "idle" /\ iaWaited = 0 /\ iaArg = "" /\ iaResult = NoResult
    /\ ingested = Len(logBuffer)
    /\ streams = 1
    /\ cdFetched = NeverFetched
    /\ sdkPc = "idle" /\ sdkWaited = 0 /\ sdkResult = NoResult
    /\ extraction = NoExtraction
    /\ ToolsAtStart

NextInApp ==
    \/ IACall
    \/ IAStreamStarted
    \/ IAWake

SpecInApp == InitInApp /\ [][NextInApp]_vars

-----------------------------------------------------------------------------
(* Claims about verifyDeepLink's verdict *)

DLVerdictReached == dlPc = "done" /\ dlResult.outcome \in {"Passed", "Failed"}

ExpectedExists == latestDeepLinkExpectedData # NoExpectedData

\* C1: verifyDeepLink reports PASS if and only if the located record's status is
\* "FOUND", no required field is missing and, when an expected payload is stored,
\* no compared field mismatches; in every other case it reports FAIL.  The record
\* {status:"FOUND", is_deferred:false, deep_link_value:"x"} with the expected
\* payload {deep_link_value:"x"} passes with zero mismatches.
C1_PassIffFoundCompleteAndMatching ==
    DLVerdictReached =>
        /\ dlResult.outcome = "Passed" <=>
              /\ Get(dlResult.foundLog.json, "status") = Str("FOUND")
              /\ dlResult.missingRequired = <<>>
              /\ (ExpectedExists => dlResult.mismatches = <<>>)
        /\ ( /\ dlResult.foundLog.json = FoundDirectX
             /\ ExpectedExists
             /\ latestDeepLinkExpectedData.payload = [deep_link_value |-> Str("x")] )
           => dlResult.outcome = "Passed" /\ dlResult.mismatches = <<>>

\* Scenario B is reached: the record and the expected payload agree on deep_link_value
C1_Witness ==
    /\ DLVerdictReached
    /\ dlResult.foundLog.json = FoundDirectX
    /\ latestDeepLinkExpectedData.payload = [deep_link_value |-> Str("x")]
    /\ dlResult.outcome = "Passed"
    /\ Len(dlResult.comparisons) = 1


Keys(entries) == {entries[i].key : i \in 1..Len(entries)}

FieldIndexes == 1..Len(DEEP_LINK_FIELDS)

\* the value the stored payload holds for a field: under its key, else an alias
ExpectedValueOf(spec) ==
    getValueForSpec(spec, latestDeepLinkExpectedData.payload, Undefined)

\* non-null and non-blank
IsPresent(value) ==
    /\ value # Undefined
    /\ value # Null
    /\ ~(value.t = "string" /\ value.v \in {"", " "})

ShouldBeRequired(spec, evaluationType) ==
    \/ spec.key \in {"status", "is_deferred"}
    \/ /\ ExpectedExists
       /\ evaluationType \in spec.compareFor
       /\ IsPresent(ExpectedValueOf(spec))
    \/ /\ ~ExpectedExists
       /\ evaluationType \in spec.requiredFor

\* C2: a field of the table is required exactly when its key is status or
\* is_deferred, or an expected payload exists, the field is comparable for the
\* evaluation type and its expected value is present, or no expected payload
\* exists and the field is marked required for the type; a required field whose
\* received value is null, undefined or blank is listed as missing.  With the
\* expected payload {status:"FOUND"} and type direct, pid and c are not required
\* while status and is_deferred are.
C2_RequiredFields ==
    DLVerdictReached =>
        /\ \A i \in FieldIndexes :
              DEEP_LINK_FIELDS[i].key \in Keys(dlResult.required)
                 <=> ShouldBeRequired(DEEP_LINK_FIELDS[i], dlResult.evaluationType)
        /\ Len(dlResult.required) = Cardinality(Keys(dlResult.required))
        /\ Keys(dlResult.missingRequired) =
              {dlResult.required[i].key : i \in
                  {j \in 1..Len(dlResult.required) :
                      dlResult.required[j].received \in {"", " "}}}
        /\ Len(dlResult.missingRequired) = Cardinality(Keys(dlResult.missingRequired))
        /\ ( /\ ExpectedExists
             /\ latestDeepLinkExpectedData.payload = [status |-> Str("FOUND")]
             /\ dlResult.evaluationType = "direct" )
           => Keys(dlResult.required) = {"status", "is_deferred"}

\* a direct callback checked against the expected payload {status:"FOUND"} with a
\* field listed as missing
C2_Witness ==
    /\ DLVerdictReached
    /\ latestDeepLinkExpectedData.payload = [status |-> Str("FOUND")]
    /\ dlResult.evaluationType = "direct"
    /\ Keys(dlResult.required) = {"status", "is_deferred"}
    /\ "pid" \in DOMAIN dlResult.foundLog.json

\* a required field is listed as missing because its received value is blank
C2_WitnessMissing ==
    /\ DLVerdictReached
    /\ ExpectedExists
    /\ \E i \in 1..Len(dlResult.missingRequired) :
          /\ dlResult.missingRequired[i].key = "c"
          /\ dlResult.missingRequired[i].received = " "


\* the payload the located record is read through: the nested JSON-string payload
\* under deepLink (else deeplink), overridden by the record's own fields
ReceivedPayloadOf(log) ==
    Spread(OrElseJson(parseDeepLinkJson(Get(log.json, "deepLink")),
                      parseDeepLinkJson(Get(log.json, "deeplink"))),
           log.json)

ReceivedValueOf(spec, log) ==
    getValueForSpec(spec, ReceivedPayloadOf(log), Get(log.json, "status"))

\* the canonical string of a value: empty for null and undefined, else its text
CanonicalString(value) ==
    IF value = Null \/ value = Undefined THEN "" ELSE value.v

ShouldMismatch(spec, log, evaluationType) ==
    /\ evaluationType \in spec.compareFor
    /\ IsPresent(ExpectedValueOf(spec))
    /\ CanonicalString(ExpectedValueOf(spec)) # CanonicalString(ReceivedValueOf(spec, log))

MismatchOf(spec, log) ==
    [key |-> spec.key,
     expected |-> CanonicalString(ExpectedValueOf(spec)),
     received |-> CanonicalString(ReceivedValueOf(spec, log))]

Triples(entries) ==
    { [key |-> entries[i].key, expected |-> entries[i].expected,
       received |-> entries[i].received] : i \in 1..Len(entries) }

\* C3: the mismatch list holds exactly one entry for each field that is comparable
\* for the evaluation type, has a present expected value and whose normalized
\* expected string differs from its normalized received string, and the entry
\* carries both normalized values.  The record {status:"FOUND", is_deferred:false,
\* deep_link_value:"x"} with the expected payload {deep_link_value:"y"} fails with
\* the single mismatch deep_link_value, expected "y", received "x".
C3_MismatchList ==
    DLVerdictReached =>
        /\ Triples(dlResult.mismatches) =
              { MismatchOf(DEEP_LINK_FIELDS[i], dlResult.foundLog) : i \in
                  { j \in FieldIndexes :
                      ShouldMismatch(DEEP_LINK_FIELDS[j], dlResult.foundLog,
                                     dlResult.evaluationType) } }
        /\ Len(dlResult.mismatches) = Cardinality(Keys(dlResult.mismatches))
        /\ ( /\ dlResult.foundLog.json = FoundDirectX
             /\ latestDeepLinkExpectedData.payload = [deep_link_value |-> Str("y")] )
           => /\ dlResult.outcome = "Failed"
              /\ Triples(dlResult.mismatches) =
                    {[key |-> "deep_link_value", expected |-> "y", received |-> "x"]}

\* Scenario C is reached: one mismatch, for deep_link_value
C3_Witness ==
    /\ DLVerdictReached
    /\ dlResult.foundLog.json = FoundDirectX
    /\ latestDeepLinkExpectedData.payload = [deep_link_value |-> Str("y")]
    /\ Len(dlResult.mismatches) = 1
    /\ dlResult.outcome = "Failed"

\* an expected string and a received boolean that normalize to the same text are
\* compared and found equal
C3_WitnessNormalized ==
    /\ DLVerdictReached
    /\ latestDeepLinkExpectedData.payload = [is_deferred |-> Str("false")]
    /\ Get(dlResult.foundLog.json, "is_deferred") = Bool(FALSE)
    /\ Len(dlResult.comparisons) = 1
    /\ dlResult.mismatches = <<>>


\* the JSON-string payload under deepLink, else under deeplink, parsed
NestedPayloadOf(log) ==
    IF JsonParse(Get(log.json, "deepLink").v) # NoJson
          /\ Get(log.json, "deepLink").t = "string"
    THEN JsonParse(Get(log.json, "deepLink").v)
    ELSE IF Get(log.json, "deeplink").t = "string"
         THEN JsonParse(Get(log.json, "deeplink").v)
         ELSE NoJson

\* the boolean is_deferred of a record: at its top level, else in its nested
\* payload; Undefined when neither holds a boolean
BooleanIsDeferredOf(log) ==
    IF Get(log.json, "is_deferred") \in {Bool(TRUE), Bool(FALSE)}
    THEN Get(log.json, "is_deferred")
    ELSE IF Get(NestedPayloadOf(log), "is_deferred") \in {Bool(TRUE), Bool(FALSE)}
         THEN Get(NestedPayloadOf(log), "is_deferred")
         ELSE Undefined

\* C6: the evaluation type is direct exactly when is_deferred, read at the top
\* level of the located record or else inside its nested deepLink/deeplink
\* payload, is the boolean false; otherwise (true, absent, not a boolean) it is
\* deferred; the displayed label is "unknown" exactly when no boolean is_deferred
\* was found at either level, and is the evaluation type otherwise.
C6_EvaluationType ==
    DLVerdictReached =>
        /\ dlResult.evaluationType = "direct"
              <=> BooleanIsDeferredOf(dlResult.foundLog) = Bool(FALSE)
        /\ dlResult.evaluationType = "deferred"
              <=> BooleanIsDeferredOf(dlResult.foundLog) # Bool(FALSE)
        /\ dlResult.deepLinkTypeLabel = "unknown"
              <=> BooleanIsDeferredOf(dlResult.foundLog) = Undefined
        /\ dlResult.deepLinkTypeLabel # "unknown"
              => dlResult.deepLinkTypeLabel = dlResult.evaluationType

\* a record whose top-level is_deferred is the string "false" and whose nested
\* payload holds the boolean false is evaluated as direct
C6_Witness ==
    /\ DLVerdictReached
    /\ Get(dlResult.foundLog.json, "is_deferred") = Str("false")
    /\ Get(dlResult.foundLog.json, "deepLink") = NestedDirect
    /\ dlResult.evaluationType = "direct"
    /\ dlResult.deepLinkTypeLabel = "direct"

\* a record with no boolean is_deferred is evaluated as deferred, labelled unknown
C6_WitnessUnknown ==
    /\ DLVerdictReached
    /\ Get(dlResult.foundLog.json, "is_deferred") = Str("false")
    /\ "deepLink" \notin DOMAIN dlResult.foundLog.json
    /\ dlResult.evaluationType = "deferred"
    /\ dlResult.deepLinkTypeLabel = "unknown"

-----------------------------------------------------------------------------
(* Claims about the records verifyDeepLink looks at *)

\* the step in which a verifyDeepLink call passes its poll and returns
DLEvaluates == dlPc # "done" /\ dlPc' = "done" /\ dlResult'.outcome # "Error"

\* the lines of the buffer that give deep-link records
DeepLinkRecordLines ==
    { i \in 1..Len(logBuffer) :
        /\ {"AppsFlyer", "deepLink"} \subseteq logBuffer[i].has
        /\ logBuffer[i].body.kind = "json" }

\* line i carries a timestamp that reads, now, as an instant of the last 5 minutes
WithinFiveMinutes(i) ==
    /\ parseLogcatTimestamp(logBuffer[i], now).hasMs
    /\ parseLogcatTimestamp(logBuffer[i], now).ms >= now - RECENT_WINDOW_MS

\* C4: the record a verdict is based on has an epoch timestamp no older than 5
\* minutes before the evaluation instant: it is the record of a buffer line that
\* carries a parseable timestamp within the window; and when deep-link records
\* exist but none is within the last 5 minutes the call ends with the
\* no-recent-logs diagnostic, whatever the status of those records.
C4_VerdictOnRecentRecord ==
    [][ DLEvaluates =>
          /\ dlResult'.outcome \in {"Passed", "Failed"} =>
                /\ dlResult'.foundLog.hasMs
                /\ dlResult'.foundLog.timestampMs >= now - RECENT_WINDOW_MS
                /\ \E i \in DeepLinkRecordLines :
                      /\ WithinFiveMinutes(i)
                      /\ ParsedLog(logBuffer[i], DEEPLINK_KEYWORD, now)
                            = dlResult'.foundLog
          /\ ( /\ DeepLinkRecordLines # {}
               /\ \A i \in DeepLinkRecordLines : ~WithinFiveMinutes(i) )
             => dlResult'.outcome = "NoRecentLogs" ]_vars

\* a verdict is reached although a record with status FOUND and no usable
\* timestamp lies after the located record
C4_Witness ==
    /\ DLVerdictReached
    /\ Len(dlResult.logs) = 2
    /\ dlResult.foundLog = dlResult.logs[1]
    /\ Get(dlResult.logs[2].json, "status") = Str("FOUND")
    /\ ~(dlResult.logs[2].hasMs /\ dlResult.logs[2].timestampMs >= dlResult.sinceMs)

\* records with status FOUND exist, none of them recent: the call fails as stale
C4_WitnessStale ==
    /\ dlPc = "done"
    /\ dlResult.outcome = "NoRecentLogs"
    /\ Len(dlResult.logs) = 3
    /\ dlResult.logs[1].hasMs /\ ~dlResult.logs[2].hasMs
    /\ \A i \in 1..3 : Get(dlResult.logs[i].json, "status") = Str("FOUND")

IsFound(log) == Get(log.json, "status") = Str("FOUND")

\* C5: the located record is the newest recent record whose status is the string
\* "FOUND": no recent record with status "FOUND" lies after it; if no recent
\* record has status "FOUND" the call fails with the status-not-found diagnostic
\* and reports the newest recent record, whatever its status.
C5_NewestFound ==
    dlPc = "done" /\ dlResult.outcome \notin {"Error", "NoAppsFlyerLogs", "NoDeepLinkLogs"} =>
        /\ DLVerdictReached <=>
              \E i \in 1..Len(dlResult.recentLogs) : IsFound(dlResult.recentLogs[i])
        /\ DLVerdictReached =>
              \E i \in 1..Len(dlResult.recentLogs) :
                 /\ dlResult.recentLogs[i] = dlResult.foundLog
                 /\ IsFound(dlResult.recentLogs[i])
                 /\ \A j \in (i + 1)..Len(dlResult.recentLogs) :
                       ~IsFound(dlResult.recentLogs[j])
        /\ ( /\ dlResult.recentLogs # <<>>
             /\ \A i \in 1..Len(dlResult.recentLogs) : ~IsFound(dlResult.recentLogs[i]) )
           => /\ dlResult.outcome = "StatusNotFound"
              /\ dlResult.latestLog = dlResult.recentLogs[Len(dlResult.recentLogs)]

\* two recent records with status FOUND and a newer one without: the later of the
\* two is located
C5_Witness ==
    /\ DLVerdictReached
    /\ Len(dlResult.recentLogs) = 3
    /\ IsFound(dlResult.recentLogs[1])
    /\ dlResult.recentLogs[1] # dlResult.recentLogs[2]
    /\ dlResult.foundLog = dlResult.recentLogs[2]
    /\ ~IsFound(dlResult.recentLogs[3])

\* C7: on an empty buffer the filter returns the empty sequence for every keyword,
\* and a verifyDeepLink call during which the buffer stays empty ends with the
\* no-logs diagnostic, never with a verdict.
C7_EmptyBuffer ==
    logBuffer = <<>> =>
        /\ \A keyword \in {"", "deepLink", "INAPP-", "CONVERSION-", "LAUNCH-"} :
              getParsedAppsflyerFilters(keyword, logBuffer, now) = <<>>
        /\ (dlPc = "done" /\ dlResult.outcome # "Error")
              => dlResult.outcome = "NoAppsFlyerLogs"

\* a call has polled an empty buffer to the end and returned
C7_Witness ==
    /\ logBuffer = <<>>
    /\ dlPc = "done"
    /\ dlWaited = PollLimitMs
    /\ dlResult.outcome = "NoAppsFlyerLogs"

-----------------------------------------------------------------------------
(* Claims about the correlator and verifyInAppEvent *)

IAReturned == iaPc = "done" /\ iaResult.outcome # "Error"

IAReported == iaPc = "done" /\ iaResult.outcome \in {"Sent", "Prepared"}

\* the task id line i carries itself, "" for none
OwnTaskId(i) == extractTaskId(logBuffer[i].token, extractJsonFromLine(logBuffer[i]))

CarriesTaskId(i) == IsRelevant(logBuffer[i]) /\ OwnTaskId(i) # ""

Largest(S) == CHOOSE x \in S : \A y \in S : y <= x

\* the task id the relevant line i is attributed to: its own, else that of the
\* closest earlier relevant line that carries one, else ""
AttributedTaskId(i) ==
    IF OwnTaskId(i) # "" THEN OwnTaskId(i)
    ELSE IF \E j \in 1..(i - 1) : CarriesTaskId(j)
         THEN OwnTaskId(Largest({j \in 1..(i - 1) : CarriesTaskId(j)}))
         ELSE ""

\* the relevant lines with both success markers that are attributed to taskId
SuccessLinesOf(taskId) ==
    { i \in 1..Len(logBuffer) :
        /\ IsRelevant(logBuffer[i])
        /\ {"execution finished", "result: success"} \subseteq logBuffer[i].lower
        /\ AttributedTaskId(i) = taskId }

Annotated(event) ==
    /\ event.sent => event.status = "sent"
    /\ ~event.sent => event.status = "prepared"
    /\ event.evidence # <<>> <=> event.sent

\* C8 as stated: every prepared event is sent, with status "sent", if and only if
\* a line containing both "execution finished" and "result: success" was
\* attributed to its task id, and is prepared otherwise; its evidence list is
\* non-empty exactly when it is sent.
C8_SentIffSuccessLine ==
    IAReturned =>
        \A k \in 1..Len(iaResult.preparedEvents) :
           /\ iaResult.preparedEvents[k].sent
                 <=> SuccessLinesOf(iaResult.preparedEvents[k].taskId) # {}
           /\ Annotated(iaResult.preparedEvents[k])

\* C8, amended: every prepared event is sent, with status "sent", if and only if
\* a line that contains both "execution finished" and "result: success" and does
\* not contain "preparing data" was attributed to its task id, and is prepared
\* otherwise; its evidence list is non-empty exactly when it is sent.
C8_SentIffPureSuccessLine ==
    IAReturned =>
        \A k \in 1..Len(iaResult.preparedEvents) :
           /\ iaResult.preparedEvents[k].sent
                 <=> \E i \in SuccessLinesOf(iaResult.preparedEvents[k].taskId) :
                        "preparing data" \notin logBuffer[i].lower
           /\ Annotated(iaResult.preparedEvents[k])

\* Scenarios D and E side by side: INAPP-1 prepared and confirmed, INAPP-2 only
\* prepared
C8_Witness ==
    /\ IAReturned
    /\ Len(iaResult.preparedEvents) = 2
    /\ iaResult.preparedEvents[1].taskId = "INAPP-1"
    /\ iaResult.preparedEvents[1].eventName = Str("purchase")
    /\ iaResult.preparedEvents[1].status = "sent"
    /\ iaResult.preparedEvents[2].taskId = "INAPP-2"
    /\ iaResult.preparedEvents[2].status = "prepared"
    /\ ~iaResult.preparedEvents[2].sent


\* the "preparing data" lines with parseable JSON attributed to taskId
PreparingLinesOf(taskId) ==
    { i \in 1..Len(logBuffer) :
        /\ IsRelevant(logBuffer[i])
        /\ "preparing data" \in logBuffer[i].lower
        /\ logBuffer[i].body.kind = "json"
        /\ AttributedTaskId(i) = taskId }

\* where in the buffer the event of taskId was last prepared
PreparingLineOf(taskId) == Largest(PreparingLinesOf(taskId) \cup {0})

\* the correlated events in scope whose name is the requested one
MatchingEvents ==
    { k \in 1..Len(iaResult.preparedEvents) :
        /\ iaResult.preparedEvents[k].eventName = Str(iaArg)
        /\ \/ iaResult.recentTaskIds = {}
           \/ iaResult.preparedEvents[k].taskId \in iaResult.recentTaskIds }

MatchingSentEvents == { k \in MatchingEvents : iaResult.preparedEvents[k].sent }

\* the reported event is the one of K whose "preparing data" line is latest
ReportsLatestOf(K) ==
    /\ \E k \in K : iaResult.preparedEvents[k] = iaResult.event
    /\ \A k \in K : PreparingLineOf(iaResult.preparedEvents[k].taskId)
                       <= PreparingLineOf(iaResult.event.taskId)

\* C9: among the in-scope events with the requested name, verifyInAppEvent
\* reports the sent one whose "preparing data" line is latest in the buffer; if
\* none is sent, the prepared one whose "preparing data" line is latest; if there
\* is none at all, that the event was not found.
C9_ReportsMostRecent ==
    iaPc = "done" /\ iaResult.outcome \in {"Sent", "Prepared", "NotFound"} =>
        IF MatchingSentEvents # {}
        THEN iaResult.outcome = "Sent" /\ ReportsLatestOf(MatchingSentEvents)
        ELSE IF MatchingEvents # {}
        THEN iaResult.outcome = "Prepared" /\ ReportsLatestOf(MatchingEvents)
        ELSE iaResult.outcome = "NotFound"

\* the reported event is the last of K in the order in which the task ids were
\* first prepared
ReportsLastRegisteredOf(K) ==
    /\ Largest(K) \in K
    /\ iaResult.preparedEvents[Largest(K)] = iaResult.event

\* what the handler does instead: the events are ranked by the first "preparing
\* data" line of their task id, not by the line that last prepared them
C9_ReportsLastRegistered ==
    iaPc = "done" /\ iaResult.outcome \in {"Sent", "Prepared", "NotFound"} =>
        IF MatchingSentEvents # {}
        THEN iaResult.outcome = "Sent" /\ ReportsLastRegisteredOf(MatchingSentEvents)
        ELSE IF MatchingEvents # {}
        THEN iaResult.outcome = "Prepared" /\ ReportsLastRegisteredOf(MatchingEvents)
        ELSE iaResult.outcome = "NotFound"

\* line i gives an in-app record whose timestamp is within the last 5 minutes
RecentInAppRecord(i) ==
    /\ IsRelevant(logBuffer[i])
    /\ logBuffer[i].body.kind = "json"
    /\ parseLogcatTimestamp(logBuffer[i], iaResult.nowMs).hasMs
    /\ parseLogcatTimestamp(logBuffer[i], iaResult.nowMs).ms
          >= iaResult.nowMs - RECENT_WINDOW_MS

\* line i is an in-app line whose timestamp is within the last 5 minutes
RecentInAppLine(i) ==
    /\ IsRelevant(logBuffer[i])
    /\ parseLogcatTimestamp(logBuffer[i], iaResult.nowMs).hasMs
    /\ parseLogcatTimestamp(logBuffer[i], iaResult.nowMs).ms
          >= iaResult.nowMs - RECENT_WINDOW_MS

\* the task id in the JSON of line i (task_id, else taskId), "" for none
JsonTaskId(i) == extractTaskId("", extractJsonFromLine(logBuffer[i]))

\* C10 as stated: an event is reported as sent or as prepared only if its task id
\* appears in at least one in-app line of the last 5 minutes (in its JSON, as its
\* INAPP-<digits> token, or by attribution).
C10_ReportedTaskIsRecent ==
    IAReported =>
        \E i \in 1..Len(logBuffer) :
           /\ RecentInAppLine(i)
           /\ iaResult.event.taskId \in {JsonTaskId(i), OwnTaskId(i), AttributedTaskId(i)}

\* C10, amended: an event is reported as sent or as prepared only if at least one
\* in-app record has a timestamp within the last 5 minutes and either the
\* event's task id is the JSON task_id/taskId of such a recent record, or no
\* recent in-app record carries a JSON task_id/taskId at all; in that last case
\* the prepared events are not scoped by time.
C10_ReportedTaskInRecentJsonIds ==
    IAReported =>
        /\ \E i \in 1..Len(logBuffer) : RecentInAppRecord(i)
        /\ \/ \E i \in 1..Len(logBuffer) :
                 RecentInAppRecord(i) /\ JsonTaskId(i) = iaResult.event.taskId
           \/ \A i \in 1..Len(logBuffer) :
                 RecentInAppRecord(i) => JsonTaskId(i) = ""

\* an event is reported because a recent record names its task id in its JSON,
\* while another event of the same name, named by no recent record, is passed over
C10_Witness ==
    /\ IAReported
    /\ iaResult.recentTaskIds = {"INAPP-2"}
    /\ iaResult.event.taskId = "INAPP-2"
    /\ \E k \in 1..Len(iaResult.preparedEvents) :
          /\ iaResult.preparedEvents[k].taskId = "INAPP-1"
          /\ iaResult.preparedEvents[k].eventName = iaResult.event.eventName

-----------------------------------------------------------------------------
(* The buffer under a stream that delivers more lines than it holds *)

ArrivingLines == {FreshFound, FreshNotFound, BrokenDeepLink, LaunchLine}

InitBuffer ==
    /\ logBuffer = <<>>
    /\ streaming = TRUE
    /\ latestDeepLinkExpectedData = NoExpectedData
    /\ now = StartMs
    /\ dlPc = "idle" /\ dlWaited = 0 /\ dlResult = NoResult
    /\ iaPc = "idle" /\ iaWaited = 0 /\ iaArg = "" /\ iaResult = NoResult
    /\ ingested = 0
    /\ streams = 1
    /\ cdFetched = NeverFetched
    /\ sdkPc = "idle" /\ sdkWaited = 0 /\ sdkResult = NoResult
    /\ extraction = NoExtraction
    /\ ToolsAtStart

NextBuffer == Deliver(ArrivingLines, MaxArrivals)

SpecBuffer == InitBuffer /\ [][NextBuffer]_vars

\* what an arrival does to the buffer: below capacity the buffer grows by the
\* new line; at capacity its oldest line leaves and the others move up, in order
ArrivalIsFifo ==
    ingested' # ingested =>
       IF Len(logBuffer) < MaxBuffer
       THEN /\ Len(logBuffer') = Len(logBuffer) + 1
            /\ SubSeq(logBuffer', 1, Len(logBuffer)) = logBuffer
       ELSE /\ Len(logBuffer') = MaxBuffer
            /\ SubSeq(logBuffer', 1, MaxBuffer - 1) = Tail(logBuffer)

\* C11: after any sequence of line arrivals the buffer holds at most its capacity;
\* an arrival at a full buffer removes exactly the oldest line, and the lines
\* that stay keep their arrival order.
C11_BoundedFifo ==
    /\ [](Len(logBuffer) <= MaxBuffer)
    /\ [][ArrivalIsFifo]_vars

\* the buffer has overflowed twice and holds lines that differ
C11_Witness ==
    /\ ingested = MaxBuffer + 2
    /\ Len(logBuffer) = MaxBuffer
    /\ logBuffer[1] # logBuffer[MaxBuffer]

-----------------------------------------------------------------------------
(* The three verification tools called in any interleaving *)

NextStreams ==
    \/ Ingest({LaunchLine})
    \/ DLCall
    \/ DLStreamStarted
    \/ DLStreamFailed
    \/ DLWake
    \/ IACall
    \/ IAStreamStarted
    \/ IAStreamFailed
    \/ IAWake
    \/ SDKCall
    \/ SDKStreamStarted
    \/ SDKStreamFailed
    \/ SDKWake
    \/ SDKFetched
    \/ SDKFetchFailed

SpecStreams == Init /\ [][NextStreams]_vars

\* C12: in any interleaving of tool calls that start the stream with the same
\* prefix and device, at most one log-tailing stream exists at any time: a call
\* made while a stream runs or is still starting reuses it.
C12_AtMostOneStream == streams <= 1

\* two calls wait for the start of one and the same stream
C12_Witness ==
    /\ dlPc = "starting"
    /\ iaPc = "starting"
    /\ ~streaming
    /\ streams = 1

\* a call made while the stream runs
C12_WitnessRunning ==
    /\ streaming
    /\ sdkPc = "starting"
    /\ dlPc = "sleeping"
    /\ streams = 1

-----------------------------------------------------------------------------
(* verifyDeepLink on buffers with about RecentLimit matching lines: the     *)
(* lines at both ends decide what the cut of the filter leaves out          *)

\* a line with the keyword and without the product marker
ForeignLine == Line({"deepLink"}, {}, "", FullStamp(StartMs), JsonBody(FoundDirectX))

EndLines == {EdgeFound, BrokenDeepLink, LaunchLine, ForeignLine}

\* n copies of line
Repeat(line, n) == [i \in 1..n |-> line]

LongBuffers ==
    { oldest \o Repeat(FreshFound, RecentLimit - 1) \o newest :
        oldest \in SeqsUpTo(EndLines, 1), newest \in SeqsUpTo(EndLines, 2) }

InitFilter ==
    /\ logBuffer \in LongBuffers
    /\ streaming = TRUE
    /\ latestDeepLinkExpectedData = NoExpectedData
    /\ now = StartMs
    /\ dlPc = "idle" /\ dlWaited = 0 /\ dlResult = NoResult
    /\ iaPc = "idle" /\ iaWaited = 0 /\ iaArg = "" /\ iaResult = NoResult
    /\ ingested = Len(logBuffer)
    /\ streams = 1
    /\ cdFetched = NeverFetched
    /\ sdkPc = "idle" /\ sdkWaited = 0 /\ sdkResult = NoResult
    /\ extraction = NoExtraction
    /\ ToolsAtStart

NextFilter ==
    \/ DLCall
    \/ DLStreamStarted

SpecFilter == InitFilter /\ [][NextFilter]_vars

\* the buffer lines with the product marker and, if one is given, the keyword
MatchingLines(keyword) ==
    { i \in 1..Len(logBuffer) :
        /\ "AppsFlyer" \in logBuffer[i].has
        /\ keyword = "" \/ keyword \in logBuffer[i].has }

\* the RecentLimit most recent of them
MostRecentMatching(keyword) ==
    LET matching == MatchingLines(keyword)
    IN  { i \in matching : Cardinality({ j \in matching : j > i }) < RecentLimit }

\* those of them whose brace span is JSON
ReturnedLines(keyword) ==
    { i \in MostRecentMatching(keyword) : logBuffer[i].body.kind = "json" }

\* records is, oldest line first, the records of the lines in returned
IsInBufferOrder(records, returned, keyword, nowMs) ==
    /\ Len(records) = Cardinality(returned)
    /\ \A i \in returned :
          LET record == records[Cardinality({ j \in returned : j <= i })]
          IN  /\ record.json = logBuffer[i].body.obj
              /\ record.json # NoJson
              /\ record.type = IF keyword = "" THEN "ALL" ELSE keyword
              /\ record.hasMs = parseLogcatTimestamp(logBuffer[i], nowMs).hasMs
              /\ record.timestampMs = parseLogcatTimestamp(logBuffer[i], nowMs).ms

\* C13: the filter returns, oldest first, exactly the records of those of the 700
\* most recent buffer lines with the product marker (and the keyword, if given)
\* whose JSON extraction succeeds: at most 700 records, none with a null json,
\* in the order of their lines in the buffer.
C13_FilterRecords ==
    dlPc = "done" /\ dlResult.outcome # "Error" =>
        LET nowMs == dlResult.sinceMs + RECENT_WINDOW_MS
        IN  /\ Len(dlResult.logs) <= RecentLimit
            /\ Len(dlResult.allLogs) <= RecentLimit
            /\ IsInBufferOrder(dlResult.logs, ReturnedLines(DEEPLINK_KEYWORD),
                               DEEPLINK_KEYWORD, nowMs)
            /\ IsInBufferOrder(dlResult.allLogs, ReturnedLines(""), "", nowMs)

\* 702 deep-link lines: the cut leaves out the oldest two, and the newest of the
\* 700 it keeps has no JSON and is dropped
C13_Witness ==
    /\ dlPc = "done"
    /\ Len(logBuffer) = RecentLimit + 2
    /\ logBuffer[1] = EdgeFound
    /\ logBuffer[Len(logBuffer)] = BrokenDeepLink
    /\ logBuffer[Len(logBuffer) - 1] = EdgeFound
    /\ Len(dlResult.logs) = RecentLimit - 1
    /\ dlResult.logs[1].timestampMs = StartMs

-----------------------------------------------------------------------------
(* The polls of verifyDeepLink and verifyInAppEvent while lines arrive;     *)
(* a timer that was set fires                                               *)

PollLines == {FreshFound, Prep("INAPP-1", Fresh, "purchase")}

NextPoll ==
    \/ Ingest(PollLines)
    \/ DLCall
    \/ DLStreamStarted
    \/ DLStreamFailed
    \/ DLWake
    \/ IACall
    \/ IAStreamStarted
    \/ IAStreamFailed
    \/ IAWake

\* a timer that was set fires: weak fairness of DLWake and of IAWake, written
\* out with what enables them (WF_vars(DLWake), ENABLED <<DLWake>>_vars being
\* dlPc = "sleeping")
DLTimerFires == []<>(dlPc # "sleeping") \/ []<><<DLWake>>_vars
IATimerFires == []<>(iaPc # "sleeping") \/ []<><<IAWake>>_vars

SpecPoll == Init /\ [][NextPoll]_vars /\ DLTimerFires /\ IATimerFires

\* the buffer holds a line the filter for keyword returns a record of
HasRecord(keyword) ==
    \E i \in 1..Len(logBuffer) :
       /\ "AppsFlyer" \in logBuffer[i].has
       /\ keyword \in logBuffer[i].has
       /\ logBuffer[i].body.kind = "json"

\* what one check of a poll does, the call having waited `waited` so far: with a
\* record in the buffer or with the 2000 ms used up the call goes on to its
\* evaluation and returns, otherwise it sleeps another 200 ms
PollCheck(keyword, waited, pcAfter, waitedAfter, resultAfter) ==
    /\ waitedAfter = waited
    /\ IF HasRecord(keyword) \/ waited >= 10 * 200
       THEN pcAfter = "done" /\ resultAfter.outcome \notin {"none", "Error"}
       ELSE pcAfter = "sleeping"

\* the steps of a verifyDeepLink call from the start of the stream on
DLPollStep ==
    /\ dlPc = "starting" /\ dlPc' # "starting" /\ dlResult' # ErrorResult
          => PollCheck(DEEPLINK_KEYWORD, 0, dlPc', dlWaited', dlResult')
    /\ dlPc = "sleeping" /\ <<dlPc, dlWaited>>' # <<dlPc, dlWaited>>
          => PollCheck(DEEPLINK_KEYWORD, dlWaited + 200, dlPc', dlWaited', dlResult')

\* the steps of a verifyInAppEvent call from the start of the stream on
IAPollStep ==
    /\ iaPc = "starting" /\ iaPc' # "starting" /\ iaResult' # ErrorResult
          => PollCheck(INAPP_KEYWORD, 0, iaPc', iaWaited', iaResult')
    /\ iaPc = "sleeping" /\ <<iaPc, iaWaited>>' # <<iaPc, iaWaited>>
          => PollCheck(INAPP_KEYWORD, iaWaited + 200, iaPc', iaWaited', iaResult')

\* C14: once the stream has started, the poll of a verification call sleeps in
\* steps of 200 ms, at most 10 times, stops at the first check that finds a
\* matching record, goes on to the evaluation in both cases, and always ends.
C14_PollTerminates ==
    /\ [](dlWaited \in {200 * n : n \in 0..10} /\ iaWaited \in {200 * n : n \in 0..10})
    /\ [][DLPollStep /\ IAPollStep]_vars
    /\ (dlPc = "sleeping") ~> (dlPc = "done")
    /\ (iaPc = "sleeping") ~> (iaPc = "done")

\* verifyDeepLink has used up its 2000 ms without a deep-link record, and
\* verifyInAppEvent has stopped after two sleeps at the arrival of an in-app record
C14_Witness ==
    /\ dlPc = "done" /\ dlWaited = 2000 /\ dlResult.outcome = "NoDeepLinkLogs"
    /\ iaPc = "done" /\ iaWaited = 400 /\ iaResult.outcome = "Prepared"

-----------------------------------------------------------------------------
(* The three verification tools on lines with and without a JSON body, with *)
(* a stream that can fail to start and an install-data request that can fail *)

\* "... INAPP-1: preparing data: {..." with a brace span that is no JSON
BrokenInApp == InAppLine({"preparing data"}, "INAPP-1", Fresh, BadBody)

ErrorLines == {BrokenDeepLink, FreshFound, BrokenInApp, LaunchLine}

NextErrors ==
    \/ Deliver(ErrorLines, MaxErrorLines)
    \/ DLCall
    \/ DLStreamStarted
    \/ DLStreamFailed
    \/ DLWake
    \/ IACall
    \/ IAStreamStarted
    \/ IAStreamFailed
    \/ IAWake
    \/ SDKCall
    \/ SDKStreamStarted
    \/ SDKStreamFailed
    \/ SDKWake
    \/ SDKFetched
    \/ SDKFetchFailed

SpecErrors == Init /\ [][NextErrors]_vars

\* the places a call can be at: none of them is outside the handler
HandlerPlaces == {"idle", "starting", "sleeping", "fetching", "done"}

\* the results that are a text for the caller
DLTexts ==
    {"Error", "NoAppsFlyerLogs", "NoDeepLinkLogs", "NoRecentLogs", "StatusNotFound",
     "Passed", "Failed"}
IATexts == {"Error", "NoLogs", "NoRecentLogs", "Sent", "Prepared", "NotFound"}
SDKTexts ==
    {"MissingValues", "LogsError", "NoRecentLogs", "MissingUid", "Succeeded", "DataError"}

\* the buffer lines with `keyword` whose brace span is JSON
ParseableLines(keyword) ==
    { i \in DOMAIN logBuffer :
        /\ MatchesFilter(logBuffer[i], keyword)
        /\ logBuffer[i].body.kind = "json" }

\* the stream fails to start while the call waits for it
StreamFails(pc) == pc = "starting" /\ streams' = 0

\* the call returns from its evaluation
Evaluates(pc, pcAfter) == pc \in {"starting", "sleeping"} /\ pcAfter = "done"

\* C15: no failure leaves a verification call as an exception. When the stream
\* fails to start, verifyDeepLink, verifyInAppEvent and verifyAppsFlyerSdk return
\* their error text, when the install-data request fails verifyAppsFlyerSdk
\* returns its error text, every returned call holds one of the tool's texts,
\* and a line whose brace span is no JSON is left out of the records of the
\* evaluation, which runs on the other lines.
C15_NoFailureEscapes ==
    /\ [](/\ {dlPc, iaPc, sdkPc} \subseteq HandlerPlaces
          /\ dlPc = "done" => dlResult.outcome \in DLTexts
          /\ iaPc = "done" => iaResult.outcome \in IATexts
          /\ sdkPc = "done" => sdkResult.outcome \in SDKTexts)
    /\ [][/\ StreamFails(dlPc) /\ dlPc' # dlPc
               => dlPc' = "done" /\ dlResult'.outcome = "Error"
          /\ StreamFails(iaPc) /\ iaPc' # iaPc
               => iaPc' = "done" /\ iaResult'.outcome = "Error"
          /\ StreamFails(sdkPc) /\ sdkPc' # sdkPc
               => sdkPc' = "done" /\ sdkResult'.outcome = "LogsError"
          /\ sdkPc = "fetching" /\ sdkPc' # sdkPc
               => /\ sdkPc' = "done"
                  /\ sdkResult'.outcome \in {"Succeeded", "DataError"}
          /\ Evaluates(dlPc, dlPc') /\ dlResult'.outcome # "Error"
               => /\ Len(dlResult'.logs) = Cardinality(ParseableLines(DEEPLINK_KEYWORD))
                  /\ Len(dlResult'.allLogs) = Cardinality(ParseableLines(""))
          /\ Evaluates(iaPc, iaPc') /\ iaResult'.outcome # "Error"
               => Len(iaResult'.logs) = Cardinality(ParseableLines(INAPP_KEYWORD))
         ]_vars

\* the stream failed under a call of each tool, and each call returned its text
C15_Witness ==
    /\ dlPc = "done" /\ dlResult.outcome = "Error"
    /\ iaPc = "done" /\ iaResult.outcome = "Error"
    /\ sdkPc = "done" /\ sdkResult.outcome = "LogsError"

\* a verdict on the parseable line of a buffer that holds an unparseable one
C15_WitnessDropped ==
    /\ dlPc = "done"
    /\ dlResult.outcome \in {"Passed", "Failed"}
    /\ Len(dlResult.logs) = 1
    /\ logBuffer = <<BrokenDeepLink, FreshFound>>

\* the install-data request failed
C15_WitnessFetch == sdkPc = "done" /\ sdkResult.outcome = "DataError"

-----------------------------------------------------------------------------
(* The expected-data store under createDeepLink calls that fetch different  *)
(* links and payloads, or nothing, while verifyDeepLink reads it            *)

StoreUrls == {"https://onelink/abc/def", "https://onelink/abc/ghi"}
StorePayloads == {[deep_link_value |-> Str("y")], [deep_link_value |-> Str("z")]}

NextStore ==
    \/ CreateDeepLink(StoreUrls, StorePayloads \cup {NoJson})
    \/ Tick
    \/ Ingest({FreshFound})
    \/ DLCall
    \/ DLStreamStarted
    \/ DLStreamFailed
    \/ DLWake

SpecStore == Init /\ [][NextStore]_vars

\* what the getter returns is the link and the payload of `fetched`
ReturnsWrite(fetched) ==
    /\ getLatestDeepLinkExpectedData # NoExpectedData
    /\ getLatestDeepLinkExpectedData.oneLinkUrl = fetched.oneLinkUrl
    /\ getLatestDeepLinkExpectedData.payload = fetched.oneLinkData

\* C16: the store of the expected deep-link data is last-write-wins and keeps no
\* history. Before any write the getter returns null; a createDeepLink call that
\* fetched an object writes, and from then on the getter returns the link and
\* the payload of that write until the next write; nothing but a write changes
\* the stored value, in particular no step of verifyDeepLink, which reads it.
C16_LastWriteWins ==
    /\ [](cdFetched = NeverFetched => getLatestDeepLinkExpectedData = NoExpectedData)
    /\ [](cdFetched.oneLinkData # NoJson => ReturnsWrite(cdFetched))
    /\ [][/\ latestDeepLinkExpectedData' # latestDeepLinkExpectedData
               => /\ cdFetched'.oneLinkData # NoJson
                  /\ dlPc' = dlPc
          /\ dlPc' # dlPc => latestDeepLinkExpectedData' = latestDeepLinkExpectedData
          /\ dlPc # "done" /\ dlPc' = "done" /\ dlResult'.outcome \in {"Passed", "Failed"}
               => dlResult'.expectedPayload = latestDeepLinkExpectedData.payload
         ]_vars

\* a verdict read one write, and a later write with another link and payload
\* replaced it
C16_Witness ==
    /\ dlPc = "done"
    /\ dlResult.outcome \in {"Passed", "Failed"}
    /\ dlResult.expectedPayload = [deep_link_value |-> Str("y")]
    /\ ReturnsWrite([oneLinkUrl |-> "https://onelink/abc/ghi",
                     oneLinkData |-> [deep_link_value |-> Str("z")]])

\* a fetch that gave no object after a write: the write stays
C16_WitnessKept ==
    /\ cdFetched.oneLinkData = NoJson
    /\ getLatestDeepLinkExpectedData # NoExpectedData

-----------------------------------------------------------------------------
(* extractJsonFromLine on every text of up to MaxPieces pieces, then on the *)
(* JSON text of what it returned                                            *)

Pieces == {OpenBrace, CloseBrace, Comma, OtherText, Member("a", "1.0"), Member("b", "1e999")}

InitJson ==
    /\ logBuffer = <<>>
    /\ streaming = FALSE
    /\ latestDeepLinkExpectedData = NoExpectedData
    /\ now = StartMs
    /\ dlPc = "idle" /\ dlWaited = 0 /\ dlResult = NoResult
    /\ iaPc = "idle" /\ iaWaited = 0 /\ iaArg = "" /\ iaResult = NoResult
    /\ ingested = 0
    /\ streams = 0
    /\ cdFetched = NeverFetched
    /\ sdkPc = "idle" /\ sdkWaited = 0 /\ sdkResult = NoResult
    /\ \E text \in SeqsUpTo(Pieces, MaxPieces) :
          extraction = [NoExtraction EXCEPT !.pc = "line", !.line = text]
    /\ ToolsAtStart

NextJson == ExtractJson \/ Stringify

SpecJson == InitJson /\ [][NextJson]_vars

\* the text has a "{" with a "}" somewhere after it
HasBraceSpan(text) ==
    \E i, j \in 1..Len(text) : i < j /\ text[i] = OpenBrace /\ text[j] = CloseBrace

\* the members of the pieces
MemberPieces == {piece \in Pieces \cup {Member("a", "1"), Member("b", "null")} :
                    piece.kind = "member"}

\* the JSON texts of objects: "{", members with a comma between them, "}"
RECURSIVE Joined(_)
Joined(members) ==
    IF Len(members) <= 1 THEN members
    ELSE <<Head(members), Comma>> \o Joined(Tail(members))

ObjectTexts ==
    { <<OpenBrace>> \o Joined(members) \o <<CloseBrace>> :
        members \in SeqsUpTo(MemberPieces, (MaxPieces - 1) \div 2) }

\* from the first "{" to the last "}" the text is the JSON text of an object
SpanIsJson(text) ==
    \E i, j \in 1..Len(text) :
        /\ SubSeq(text, i, j) \in ObjectTexts
        /\ \A k \in 1..Len(text) : text[k] = OpenBrace => k >= i
        /\ \A k \in 1..Len(text) : text[k] = CloseBrace => k <= j

\* two JSON objects one after the other
TwoSiblings(text) ==
    \E i \in 1..Len(text) :
        /\ SubSeq(text, 1, i) \in ObjectTexts
        /\ SubSeq(text, i + 1, Len(text)) \in ObjectTexts

\* extractJsonFromLine returned for the line of the state
Extracted == extraction.pc \in {"parsed", "reparsed"}

ReturnsNullWithoutJson ==
    /\ Extracted /\ ~HasBraceSpan(extraction.line) => extraction.json = NoJson
    /\ Extracted /\ ~SpanIsJson(extraction.line) => extraction.json = NoJson
    /\ Extracted /\ TwoSiblings(extraction.line) => extraction.json = NoJson

\* C17 as stated: extractJsonFromLine is idempotent, on the JSON text of a
\* mapping it returned it returns an equal mapping, and it returns null on a
\* line with no brace span or with a span that is no JSON, two sibling objects
\* included.
C17_Idempotent ==
    /\ extraction.pc = "reparsed" => extraction.json = extraction.first
    /\ ReturnsNullWithoutJson

\* no value of the mapping is a number beyond the doubles
AllFinite(json) == \A key \in DOMAIN json : json[key] # Num("Infinity")

\* C17 as amended: on the JSON text of a mapping it returned whose numbers are
\* all finite, extractJsonFromLine returns an equal mapping; a number that read
\* as Infinity comes back as null; and it returns null on a line with no brace
\* span or with a span that is no JSON, two sibling objects included.
C17_IdempotentOnFinite ==
    /\ extraction.pc = "reparsed" /\ AllFinite(extraction.first)
         => extraction.json = extraction.first
    /\ extraction.pc = "reparsed"
         => /\ DOMAIN extraction.json = DOMAIN extraction.first
            /\ \A key \in DOMAIN extraction.first :
                  extraction.json[key] =
                      IF extraction.first[key] = Num("Infinity")
                      THEN Null ELSE extraction.first[key]
    /\ ReturnsNullWithoutJson

\* {"a":1.0} came back as {"a":1} and was read as the same mapping
C17_Witness ==
    /\ extraction.pc = "reparsed"
    /\ extraction.line = <<OpenBrace, Member("a", "1"), CloseBrace>>
    /\ extraction.first = [a |-> Num("1")]
    /\ extraction.json = extraction.first

\* two sibling objects
C17_WitnessSiblings ==
    /\ extraction.pc = "parsed"
    /\ extraction.line = <<OpenBrace, CloseBrace, OpenBrace, CloseBrace>>
    /\ extraction.json = NoJson

-----------------------------------------------------------------------------
(* verifyDeepLink on lines with a short timestamp around one day ahead of   *)
(* the clock                                                                *)

\* "MM-DD HH:MM:SS.mmm ... deepLink ...": cur is its instant in the current year,
\* prev its instant in the year before.  A year of milliseconds is beyond the
\* integers of the checker, so prev is given and not computed from cur.
ShortFound(cur, prev) == DeepLinkLine(ShortStamp(cur, prev), JsonBody(FoundDirectX))

\* the previous year's instant of a real month and day: long before the start
LongAgo == 1 - DAY_MS

StampLines ==
    { ShortFound(cur, LongAgo) :
        cur \in {StartMs, StartMs + DAY_MS, StartMs + DAY_MS + 1,
                 StartMs + DAY_MS + PollStepMs, StartMs + DAY_MS + PollStepMs + 1} }
    \cup
    \* a month past December: both years' instants are ahead of the clock
    { ShortFound(StartMs + 3 * DAY_MS, StartMs + 2 * DAY_MS) }

InitStamp ==
    /\ logBuffer \in SeqsUpTo(StampLines, 2)
    /\ streaming = TRUE
    /\ latestDeepLinkExpectedData = NoExpectedData
    /\ now = StartMs
    /\ dlPc = "idle" /\ dlWaited = 0 /\ dlResult = NoResult
    /\ iaPc = "idle" /\ iaWaited = 0 /\ iaArg = "" /\ iaResult = NoResult
    /\ ingested = 0
    /\ streams = 1
    /\ cdFetched = NeverFetched
    /\ sdkPc = "idle" /\ sdkWaited = 0 /\ sdkResult = NoResult
    /\ extraction = NoExtraction
    /\ ToolsAtStart

NextStamp ==
    \/ Tick
    \/ DLCall
    \/ DLStreamStarted
    \/ DLWake

SpecStamp == InitStamp /\ [][NextStamp]_vars

\* the year of a short timestamp read at nowMs: the current one, or the one before
InferredYear(stamp, nowMs) ==
    IF stamp.cur - nowMs > DAY_MS THEN "previous" ELSE "current"

InstantOf(stamp, year) == IF year = "previous" THEN stamp.prev ELSE stamp.cur

\* C18: a short timestamp is read in the previous year when its instant in the
\* current year is more than 24 hours after now, and in the current year
\* otherwise; so the instant returned is never more than 24 hours ahead of now
\* when the previous year's instant lies in the past.
C18_ShortTimestampYear ==
    [][DLEvaluates =>
         /\ Len(dlResult'.logs) = Len(logBuffer)
         /\ \A i \in 1..Len(logBuffer) :
               LET stamp == logBuffer[i].stamp
                   ms == dlResult'.logs[i].timestampMs
               IN  /\ dlResult'.logs[i].hasMs
                   /\ ms = InstantOf(stamp, InferredYear(stamp, now))
                   /\ stamp.prev <= now => ms <= now + DAY_MS
      ]_vars

\* after one tick of the clock: the line one day and 200 ms ahead of the start is
\* read in the current year, the line 1 ms later in the previous one
C18_Witness ==
    /\ dlPc = "done"
    /\ now = StartMs + PollStepMs
    /\ dlResult.sinceMs = now - RECENT_WINDOW_MS
    /\ Len(dlResult.logs) = 2
    /\ logBuffer = <<ShortFound(now + DAY_MS, LongAgo),
                     ShortFound(now + DAY_MS + 1, LongAgo)>>
    /\ dlResult.logs[1].timestampMs = now + DAY_MS
    /\ dlResult.logs[2].timestampMs = LongAgo

-----------------------------------------------------------------------------
(* One verifyDeepLink call among arriving lines and store writes *)

\* the JSON objects of the buffer lines with `keyword`, in buffer order
JsonOfLines(keyword) ==
    LET Parseable(line) == MatchesFilter(line, keyword) /\ line.body.kind = "json"
        lines == SelectSeq(logBuffer, Parseable)
    IN  [i \in 1..Len(lines) |-> lines[i].body.obj]

JsonOfRecords(records) == [i \in 1..Len(records) |-> records[i].json]

\* C19: a verifyDeepLink call is suspended only while the stream starts and
\* while a poll sleep runs. The step that makes the last poll check also returns
\* the result: no line arrives and no expected data is written in it, the
\* deep-link records, the records of all SDK lines and the expected payload of
\* the result are those of the buffer and the store at that check, and a poll
\* that ended before its time limit ended on a record that is among them.
C19_OneStatePerVerdict ==
    /\ [](dlPc \in {"idle", "starting", "sleeping", "done"})
    /\ [][DLEvaluates =>
            /\ dlPc \in {"starting", "sleeping"}
            /\ logBuffer' = logBuffer
            /\ latestDeepLinkExpectedData' = latestDeepLinkExpectedData
            /\ JsonOfRecords(dlResult'.logs) = JsonOfLines(DEEPLINK_KEYWORD)
            /\ JsonOfRecords(dlResult'.allLogs) = JsonOfLines("")
            /\ dlResult'.outcome \in {"Passed", "Failed"}
                 => dlResult'.expectedPayload = latestDeepLinkExpectedData.payload
            /\ dlWaited' < PollLimitMs => Len(dlResult'.logs) >= 1
         ]_vars

\* a record arrived during a poll sleep, after the expected data was written,
\* and the verdict was given on both
C19_Witness ==
    /\ dlPc = "done"
    /\ dlResult.outcome \in {"Passed", "Failed"}
    /\ dlWaited \in {PollStepMs * n : n \in 1..9}
    /\ dlResult.expectedPayload # NoJson
    /\ Len(dlResult.logs) >= 1
    /\ Len(dlResult.allLogs) > Len(dlResult.logs)

-----------------------------------------------------------------------------
(* verifyInAppEvent on buffers of lines with and without a task id of their *)
(* own                                                                      *)

ScanLines ==
    { Prep("INAPP-1", Fresh, "purchase"),
      \* "preparing data" on a line with no task id of its own
      InAppLine({"preparing data"}, "", Fresh, JsonBody([eventName |-> Str("login")])),
      \* the task id of the JSON is not the one of the text
      InAppLine({"preparing data"}, "INAPP-1", Fresh,
                JsonBody([eventName |-> Str("login"), task_id |-> Str("T3")])),
      \* a task id, and a brace span that is no JSON
      InAppLine({"preparing data"}, "INAPP-2", Fresh, BadBody),
      InAppLine(SuccessMarkers, "INAPP-2", Fresh, NoBody),
      \* a success line with no task id of its own
      InAppLine(SuccessMarkers, "", Fresh, NoBody),
      \* "inapp-9" in lower case: a task token on a line that is not relevant
      Line({"AppsFlyer"}, SuccessMarkers, "inapp-9", Fresh, NoBody) }

InitScan ==
    /\ logBuffer \in SeqsUpTo(ScanLines, MaxBuffer)
    /\ streaming = TRUE
    /\ latestDeepLinkExpectedData = NoExpectedData
    /\ now = StartMs
    /\ dlPc = "idle" /\ dlWaited = 0 /\ dlResult = NoResult
    /\ iaPc = "idle" /\ iaWaited = 0 /\ iaArg = "" /\ iaResult = NoResult
    /\ ingested = Len(logBuffer)
    /\ streams = 1
    /\ cdFetched = NeverFetched
    /\ sdkPc = "idle" /\ sdkWaited = 0 /\ sdkResult = NoResult
    /\ extraction = NoExtraction
    /\ ToolsAtStart

SpecScan == InitScan /\ [][NextInApp]_vars

\* the relevant lines that can register a prepared event
PreparingLines ==
    { i \in 1..Len(logBuffer) :
        /\ IsRelevant(logBuffer[i])
        /\ "preparing data" \in logBuffer[i].lower
        /\ logBuffer[i].body.kind = "json" }

\* the relevant lines that can mark a task sent
MarkingLines ==
    { i \in 1..Len(logBuffer) :
        /\ IsRelevant(logBuffer[i])
        /\ "preparing data" \notin logBuffer[i].lower
        /\ {"execution finished", "result: success"} \subseteq logBuffer[i].lower }

\* the relevant lines before which no relevant line carries a task id, and which
\* carry none themselves
Orphans == { i \in 1..Len(logBuffer) : IsRelevant(logBuffer[i]) /\ AttributedTaskId(i) = "" }

EventTaskIds == { iaResult.preparedEvents[k].taskId : k \in 1..Len(iaResult.preparedEvents) }

\* C20: in the scan a relevant line with a task id of its own (the JSON's
\* task_id or taskId, else the INAPP-<digits> token) is attributed to that id,
\* a relevant line without one to the id of the closest earlier relevant line
\* that carries one, and a relevant line before every id-carrying line is
\* ignored: the prepared events are those of the attributed "preparing data"
\* lines, each with the payload of the last line attributed to its task, and
\* the sent ones are those a success line was attributed to.
C20_Attribution ==
    IAReturned =>
        /\ EventTaskIds = { AttributedTaskId(i) : i \in PreparingLines \ Orphans }
        /\ \A k \in 1..Len(iaResult.preparedEvents) :
              LET event == iaResult.preparedEvents[k]
                  last == Largest({ i \in PreparingLines : AttributedTaskId(i) = event.taskId })
              IN  /\ event.payload = logBuffer[last].body.obj
                  /\ event.sent <=>
                        \E i \in MarkingLines \ Orphans : AttributedTaskId(i) = event.taskId

\* an orphan, a line with the JSON's task id, and a "preparing data" line
\* without a task id that is attributed to it
C20_Witness ==
    /\ IAReturned
    /\ Len(logBuffer) = 3
    /\ Orphans = {1}
    /\ "preparing data" \in logBuffer[1].lower
    /\ OwnTaskId(2) = "T3"
    /\ logBuffer[2].token = "INAPP-1"
    /\ OwnTaskId(3) = ""
    /\ 3 \in PreparingLines
    /\ EventTaskIds = {"T3"}
    /\ iaResult.preparedEvents[1].payload = logBuffer[3].body.obj

\* a success line without a task id marks the task of the line before it
C20_WitnessSent ==
    /\ IAReturned
    /\ Len(logBuffer) = 3
    /\ OwnTaskId(1) = "INAPP-1"
    /\ 1 \in PreparingLines
    /\ OwnTaskId(2) = "INAPP-2"
    /\ 3 \in MarkingLines /\ OwnTaskId(3) = ""
    /\ Len(iaResult.preparedEvents) = 1
    /\ ~iaResult.preparedEvents[1].sent

-----------------------------------------------------------------------------
(* verifyInAppEvent on buffers in which one task is prepared several times, *)
(* with the event name under either key                                     *)

PreparedLines ==
    { Prep("INAPP-1", Fresh, "purchase"),
      Prep("INAPP-2", Fresh, "purchase"),
      \* both keys: eventName is the name
      InAppLine({"preparing data"}, "INAPP-1", Fresh,
                JsonBody([eventName |-> Str("login"), event_name |-> Str("purchase")])),
      \* a blank eventName: event_name is the name
      InAppLine({"preparing data"}, "INAPP-1", Fresh,
                JsonBody([eventName |-> Str(" "), event_name |-> Str("login")])),
      \* an eventName that is no string, and no event_name: no name
      InAppLine({"preparing data"}, "INAPP-1", Fresh, JsonBody([eventName |-> Num("5")])),
      \* a brace span that is no JSON
      InAppLine({"preparing data"}, "INAPP-1", Fresh, BadBody) }

InitPrepared ==
    /\ logBuffer \in SeqsUpTo(PreparedLines, MaxBuffer)
    /\ streaming = TRUE
    /\ latestDeepLinkExpectedData = NoExpectedData
    /\ now = StartMs
    /\ dlPc = "idle" /\ dlWaited = 0 /\ dlResult = NoResult
    /\ iaPc = "idle" /\ iaWaited = 0 /\ iaArg = "" /\ iaResult = NoResult
    /\ ingested = Len(logBuffer)
    /\ streams = 1
    /\ cdFetched = NeverFetched
    /\ sdkPc = "idle" /\ sdkWaited = 0 /\ sdkResult = NoResult
    /\ extraction = NoExtraction
    /\ ToolsAtStart

SpecPrepared == InitPrepared /\ [][NextInApp]_vars

\* a string with a character that is no white space
IsNameString(value) == value.t = "string" /\ value.v \notin {"", " "}

\* the event name a payload holds: under eventName, else under event_name
NameOf(payload) ==
    IF "eventName" \in DOMAIN payload /\ IsNameString(payload["eventName"])
    THEN payload["eventName"]
    ELSE IF "event_name" \in DOMAIN payload /\ IsNameString(payload["event_name"])
    THEN payload["event_name"]
    ELSE Undefined

\* C21: the correlator holds at most one prepared event per task id. Its
\* payload and its event name (eventName, else event_name) are those of the
\* last "preparing data" line with parseable JSON that is attributed to the
\* task; a "preparing data" line without parseable JSON registers nothing and
\* changes no event.
C21_OnePreparedEventPerTask ==
    IAReturned =>
        /\ \A k, m \in 1..Len(iaResult.preparedEvents) :
              iaResult.preparedEvents[k].taskId = iaResult.preparedEvents[m].taskId
                 => k = m
        /\ Len(iaResult.preparedEvents)
              = Cardinality({ AttributedTaskId(i) : i \in PreparingLines })
        /\ \A k \in 1..Len(iaResult.preparedEvents) :
              LET event == iaResult.preparedEvents[k]
                  last == PreparingLineOf(event.taskId)
              IN  /\ last \in PreparingLines
                  /\ event.payload = logBuffer[last].body.obj
                  /\ event.eventName = NameOf(logBuffer[last].body.obj)

\* INAPP-1 prepared as purchase, then with both keys, then on an unparseable
\* line: one event, named by the eventName of the second line
C21_Witness ==
    /\ IAReturned
    /\ Len(logBuffer) = 3
    /\ logBuffer[1] = Prep("INAPP-1", Fresh, "purchase")
    /\ logBuffer[2].body.obj = [eventName |-> Str("login"), event_name |-> Str("purchase")]
    /\ logBuffer[3].body = BadBody
    /\ Len(iaResult.preparedEvents) = 1
    /\ iaResult.preparedEvents[1].eventName = Str("login")

\* the name taken from event_name, and an event without a name
C21_WitnessSnake ==
    /\ IAReturned
    /\ Len(iaResult.preparedEvents) = 1
    /\ logBuffer[Len(logBuffer)].body.obj = [eventName |-> Str(" "), event_name |-> Str("login")]
    /\ iaResult.preparedEvents[1].eventName = Str("login")

-----------------------------------------------------------------------------
(* Claims about the values verifyDeepLink resolves for the field specs *)

SpecOfKey(key) ==
    DEEP_LINK_FIELDS[CHOOSE i \in FieldIndexes : DEEP_LINK_FIELDS[i].key = key]

\* payload[key], Undefined when the payload is null or has no such key
ValueUnder(payload, key) ==
    IF payload # NoJson /\ key \in DOMAIN payload THEN payload[key] ELSE Undefined

\* the value under the spec's own key when the payload has the key, else the
\* value under the first alias the payload has
ResolvedFrom(spec, payload) ==
    IF payload # NoJson /\ spec.key \in DOMAIN payload THEN payload[spec.key]
    ELSE LET held == { i \in 1..Len(spec.aliases) :
                          ValueUnder(payload, spec.aliases[i]) # Undefined }
         IN  IF held = {} THEN Undefined
             ELSE payload[spec.aliases[CHOOSE i \in held : \A j \in held : i <= j]]

\* the value the record's payload holds under key: the top-level field, else the
\* field of the nested deepLink/deeplink payload
MergedValue(log, key) ==
    IF key \in DOMAIN log.json THEN log.json[key]
    ELSE ValueUnder(NestedPayloadOf(log), key)

\* the same resolution on the record's merged payload
ResolvedFromRecord(spec, log) ==
    IF MergedValue(log, spec.key) # Undefined THEN MergedValue(log, spec.key)
    ELSE LET held == { i \in 1..Len(spec.aliases) :
                          MergedValue(log, spec.aliases[i]) # Undefined }
         IN  IF held = {} THEN Undefined
             ELSE MergedValue(log, spec.aliases[CHOOSE i \in held : \A j \in held : i <= j])

\* C22: for each field spec the value resolved from a payload is the value under
\* the spec's own key when the payload has that key, and otherwise the value
\* under the first alias that gives a defined value; the received payload is the
\* nested deepLink/deeplink payload overridden key by key by the record's
\* top-level fields. The verdict shows these values: every required entry and
\* every comparison carries the canonical string of the value resolved from the
\* record, every comparison that of the value resolved from the expected
\* payload, and a comparable field is compared exactly when the value resolved
\* from the expected payload is present.
C22_ResolvedValues ==
    DLVerdictReached =>
        /\ \A k \in 1..Len(dlResult.required) :
              dlResult.required[k].received =
                 CanonicalString(ResolvedFromRecord(SpecOfKey(dlResult.required[k].key),
                                                    dlResult.foundLog))
        /\ \A k \in 1..Len(dlResult.comparisons) :
              LET spec == SpecOfKey(dlResult.comparisons[k].key)
              IN  /\ dlResult.comparisons[k].expected =
                        CanonicalString(ResolvedFrom(spec, dlResult.expectedPayload))
                  /\ dlResult.comparisons[k].received =
                        CanonicalString(ResolvedFromRecord(spec, dlResult.foundLog))
        /\ \A i \in FieldIndexes :
              dlResult.evaluationType \in DEEP_LINK_FIELDS[i].compareFor =>
                 ( DEEP_LINK_FIELDS[i].key \in Keys(dlResult.comparisons)
                   <=> IsPresent(ResolvedFrom(DEEP_LINK_FIELDS[i], dlResult.expectedPayload)) )

\* pid falls back to media_source on both sides
C22_Witness ==
    /\ DLVerdictReached
    /\ dlResult.expectedPayload = (("media_source" :> Str("x")))
    /\ "pid" \notin DOMAIN dlResult.foundLog.json
    /\ "media_source" \in DOMAIN dlResult.foundLog.json
    /\ \E k \in 1..Len(dlResult.comparisons) :
          /\ dlResult.comparisons[k].key = "pid"
          /\ dlResult.comparisons[k].expected = "x"
          /\ dlResult.comparisons[k].received = "x"

\* a null pid is the resolved value although media_source is there
C22_WitnessOwnKey ==
    /\ DLVerdictReached
    /\ dlResult.evaluationType = "direct"
    /\ dlResult.foundLog.json["status"] = Str("FOUND")
    /\ "pid" \in DOMAIN dlResult.foundLog.json
    /\ dlResult.foundLog.json["pid"] = Null
    /\ dlResult.expectedPayload = [pid |-> Str("m"), media_source |-> Str("x")]
    /\ \E k \in 1..Len(dlResult.comparisons) :
          /\ dlResult.comparisons[k].key = "pid"
          /\ dlResult.comparisons[k].expected = "m"
          /\ dlResult.comparisons[k].received = ""

\* deep_link_value at both levels: the top-level value is the received one
C22_WitnessBothLevels ==
    /\ DLVerdictReached
    /\ ValueUnder(NestedPayloadOf(dlResult.foundLog), "deep_link_value") = Str("n")
    /\ ValueUnder(dlResult.foundLog.json, "deep_link_value") = Str("x")
    /\ \E k \in 1..Len(dlResult.required) :
          /\ dlResult.required[k].key = "deep_link_value"
          /\ dlResult.required[k].received = "x"

-----------------------------------------------------------------------------
(* The stages of a verifyDeepLink call, with a promise that settles and a   *)
(* timer that fires                                                         *)

\* await startLogcatStream(...) settles: weak fairness of its two outcomes,
\* written out with what enables them (dlPc = "starting")
DLStartSettles ==
    []<>(dlPc # "starting") \/ []<><<DLStreamStarted \/ DLStreamFailed>>_vars

SpecStages == Init /\ [][Next]_vars /\ DLStartSettles /\ DLTimerFires

\* the lines of the buffer that give records of the product
ProductRecordLines ==
    { i \in 1..Len(logBuffer) :
        "AppsFlyer" \in logBuffer[i].has /\ logBuffer[i].body.kind = "json" }

\* the first stage that fails on the buffer as it is now, the stream having
\* started
FirstFailingStage ==
    IF ProductRecordLines = {} THEN "NoAppsFlyerLogs"
    ELSE IF DeepLinkRecordLines = {} THEN "NoDeepLinkLogs"
    ELSE IF \A i \in DeepLinkRecordLines : ~WithinFiveMinutes(i) THEN "NoRecentLogs"
    ELSE IF \A i \in DeepLinkRecordLines :
               WithinFiveMinutes(i) =>
                  Get(logBuffer[i].body.obj, "status") # Str("FOUND")
         THEN "StatusNotFound"
    ELSE "Verdict"

\* what a diagnostic carries: nothing of the stages after the one that failed
ReachedBy(result) ==
    CASE result.outcome = "Error" -> DOMAIN result = {"outcome"}
      [] result.outcome \in {"NoAppsFlyerLogs", "NoDeepLinkLogs", "NoRecentLogs"} ->
            /\ "foundLog" \notin DOMAIN result
            /\ result.latestLog = NoLog
      [] result.outcome = "StatusNotFound" ->
            /\ "foundLog" \notin DOMAIN result
            /\ result.latestLog # NoLog
      [] OTHER -> result.foundLog # NoLog

\* the call returns in this step
DLReturns == dlPc # "done" /\ dlPc' = "done"

\* C23: every verifyDeepLink call ends, with one outcome, that of the first
\* stage that fails in the order stream start error, no records of the product,
\* no deep-link records, no deep-link record of the last 5 minutes, no recent
\* record with status FOUND, and the PASS/FAIL verdict when none fails; the
\* result carries nothing of a later stage, and once returned it is not
\* computed again, whatever arrives afterwards.
C23_FirstFailingStage ==
    /\ [][ DLReturns =>
             /\ dlResult'.outcome =
                   IF dlPc = "starting" /\ streams' = 0 THEN "Error"
                   ELSE IF FirstFailingStage = "Verdict"
                        THEN IF dlResult'.outcome = "Passed" THEN "Passed" ELSE "Failed"
                        ELSE FirstFailingStage
             /\ ReachedBy(dlResult') ]_vars
    /\ [][ dlPc = "done" /\ dlPc' = "done" =>
              dlResult' = dlResult /\ dlWaited' = dlWaited ]_vars
    /\ [](dlPc = "done" <=> dlResult # NoResult)
    /\ (dlPc = "starting") ~> (dlPc = "done")

\* a call ended at the fourth stage: deep-link records, none of them recent
C23_Witness ==
    /\ dlPc = "done"
    /\ dlResult.outcome = "NoRecentLogs"
    /\ Len(dlResult.logs) > 0
    /\ \E i \in 1..Len(dlResult.logs) : Get(dlResult.logs[i].json, "status") = Str("FOUND")

\* calls ended at each of the other stages
C23_WitnessStreamError == dlPc = "done" /\ dlResult = ErrorResult
C23_WitnessNoDeepLink == dlPc = "done" /\ dlResult.outcome = "NoDeepLinkLogs"
C23_WitnessNotFound == dlPc = "done" /\ dlResult.outcome = "StatusNotFound"
C23_WitnessVerdict ==
    /\ dlPc = "done" /\ dlResult.outcome = "Failed"
    /\ Len(logBuffer) = MaxBuffer

-----------------------------------------------------------------------------
(* The three verification tools and createDeepLink while lines arrive: who  *)
(* changes the buffer and the expected-data store                           *)

ReadLines == {FreshFound, Prep("INAPP-1", Fresh, "purchase"), LaunchLine}

\* the logs that are played: a deep-link line or an event line first, launch
\* lines after it
PlayedLines ==
    IF ingested = 0 THEN {FreshFound, Prep("INAPP-1", Fresh, "purchase")}
    ELSE {LaunchLine}

NextReads ==
    \/ Deliver(PlayedLines, MaxErrorLines)
    \/ CreateDeepLinkFetched(SysPayloads)
    \/ DLCall
    \/ DLStreamStarted
    \/ DLWake
    \/ IACall
    \/ IAStreamStarted
    \/ IAWake
    \/ SDKCall
    \/ SDKStreamStarted
    \/ SDKWake
    \/ SDKFetched
    \/ SDKFetchFailed

SpecReads == Init /\ [][NextReads]_vars

\* a step of one of the three verification handlers
VerificationStep ==
    <<dlPc, dlWaited, dlResult>>' # <<dlPc, dlWaited, dlResult>>
       \/ <<iaPc, iaWaited, iaArg, iaResult>>' # <<iaPc, iaWaited, iaArg, iaResult>>
       \/ <<sdkPc, sdkWaited, sdkResult>>' # <<sdkPc, sdkWaited, sdkResult>>

\* C24: the reads leave the shared stores as they are: no step of verifyDeepLink
\* (its filter and its newest-to-oldest search included), of verifyInAppEvent
\* (its correlator scan included) or of verifyAppsFlyerSdk changes the contents
\* or the order of the buffer or writes the expected-data store; the buffer
\* changes only when a line is ingested, the store only by createDeepLink.
C24_ReadsLeaveStores ==
    [][ /\ VerificationStep =>
               /\ logBuffer' = logBuffer
               /\ latestDeepLinkExpectedData' = latestDeepLinkExpectedData
        /\ logBuffer' # logBuffer =>
               /\ ingested' = ingested + 1
               /\ \E line \in ReadLines : logBuffer' = Push(logBuffer, line)
        /\ latestDeepLinkExpectedData' # latestDeepLinkExpectedData =>
               /\ cdFetched' # cdFetched
               /\ latestDeepLinkExpectedData'.payload = cdFetched'.oneLinkData ]_vars

\* a verdict of the deep-link verification, an ended in-app verification and an
\* SDK verification ended by the install data, over a buffer of two different
\* lines and a written store
C24_Witness ==
    /\ Len(logBuffer) = 2 /\ logBuffer[1] # logBuffer[2]
    /\ latestDeepLinkExpectedData # NoExpectedData
    /\ DLVerdictReached
    /\ iaPc = "done"
    /\ sdkPc = "done" /\ sdkResult.outcome = "Succeeded"

\* the correlator found a prepared event next to a launch line
C24_WitnessPrepared ==
    /\ Len(logBuffer) = 2 /\ logBuffer[1] # logBuffer[2]
    /\ iaPc = "done" /\ iaResult.outcome = "Prepared"
    /\ dlPc = "done" /\ sdkPc = "done"

-----------------------------------------------------------------------------
(* createDeepLink on every combination of its arguments, with and without  *)
(* DEV_KEY in the environment, and every kind of answer of the signed fetch *)

CreateUrls ==
    {Undefined, Str("https://onelink/abc/def"), Str("https://onelink/abc//def/"),
     Str("https://onelink/abc")}

CreateArgs ==
    [oneLinkUrl : CreateUrls,
     devKey : {Undefined, Str(""), Str("k2")},
     includeUriScheme : {Undefined, Bool(TRUE)},
     hasSha256 : {Undefined, Str("yes"), Str("no")}]

CreateAnswers ==
    {FetchThrows, FetchGives(Null), FetchGives(Str("text")), FetchGives(Num("0")),
     FetchGives(Bool(TRUE)), FetchGives(Obj([deep_link_value |-> Str("y")])),
     FetchGives(Arr("0" :> Num("1")))}

InitCreate ==
    /\ logBuffer = <<>>
    /\ streaming = FALSE
    /\ latestDeepLinkExpectedData = NoExpectedData
    /\ now = StartMs
    /\ dlPc = "idle" /\ dlWaited = 0 /\ dlResult = NoResult
    /\ iaPc = "idle" /\ iaWaited = 0 /\ iaArg = "" /\ iaResult = NoResult
    /\ ingested = 0
    /\ streams = 0
    /\ cdFetched = NeverFetched
    /\ sdkPc = "idle" /\ sdkWaited = 0 /\ sdkResult = NoResult
    /\ extraction = NoExtraction
    /\ \E devKey \in {Undefined, Str("k")} : StartIn(Env(devKey, Str("com.app")))

NextCreate ==
    \/ CDCall(CreateArgs)
    \/ CDFetchSettled(CreateAnswers)
    \/ Tick

SpecCreate == InitCreate /\ [][NextCreate]_vars

\* the URL has two non-empty path segments
YieldsBothIds(oneLinkUrl) ==
    oneLinkUrl \in {Str("https://onelink/abc/def"), Str("https://onelink/abc//def/")}

\* a dev key has been given, as an argument or in the environment
DevKeyAvailable(args) ==
    (args.devKey.t = "string" /\ args.devKey.v # "")
       \/ (env.DEV_KEY.t = "string" /\ env.DEV_KEY.v # "")

\* the data is an object in the sense of typeof, an array included, and not null
NonNullObject(data) == data.t \in {"object", "array"}

C27_WitnessKept ==
    /\ cdPc = "done"
    /\ cdResult.oneLinkData = Null
    /\ latestDeepLinkExpectedData # NoExpectedData
    /\ latestDeepLinkExpectedData.updatedAtMs < now

\* each of the paths without a fetch, after a write
C27_WitnessNoFetch ==
    /\ cdPc = "done"
    /\ cdResult.outcome = "NoIds"
    /\ latestDeepLinkExpectedData # NoExpectedData

C27_WitnessNoDevKey ==
    /\ cdPc = "done"
    /\ cdResult.note = "skipped"
    /\ cdArgs.devKey = Str("") /\ env.DEV_KEY = Str("k")

-----------------------------------------------------------------------------
(* verifyInAppEvent on buffers in which the success line of a task comes    *)
(* before, between and after its "preparing data" lines                     *)

OrderLines ==
    { Prep("INAPP-1", Fresh, "purchase"),
      Prep("INAPP-1", Fresh, "login"),
      Prep("INAPP-2", Fresh, "purchase"),
      InAppLine(SuccessMarkers, "INAPP-1", Fresh, NoBody),
      \* a success line with no task id of its own
      InAppLine(SuccessMarkers, "", Fresh, NoBody),
      \* one logcat chunk holding the prepare and the success text of INAPP-1
      InAppLine({"preparing data"} \cup SuccessMarkers, "INAPP-1", Fresh,
                JsonBody([eventName |-> Str("refund")])) }

InitOrder ==
    /\ logBuffer \in SeqsUpTo(OrderLines, MaxBuffer)
    /\ streaming = TRUE
    /\ latestDeepLinkExpectedData = NoExpectedData
    /\ now = StartMs
    /\ dlPc = "idle" /\ dlWaited = 0 /\ dlResult = NoResult
    /\ iaPc = "idle" /\ iaWaited = 0 /\ iaArg = "" /\ iaResult = NoResult
    /\ ingested = Len(logBuffer)
    /\ streams = 1
    /\ cdFetched = NeverFetched
    /\ sdkPc = "idle" /\ sdkWaited = 0 /\ sdkResult = NoResult
    /\ extraction = NoExtraction
    /\ ToolsAtStart

SpecOrder == InitOrder /\ [][NextInApp]_vars

\* the success lines attributed to taskId, a success line being a line with
\* both success markers that is no "preparing data" line
SuccessOnlyLinesOf(taskId) ==
    { i \in SuccessLinesOf(taskId) : "preparing data" \notin logBuffer[i].lower }

\* the event the scan returns for taskId
EventsOf(taskId) ==
    { k \in 1..Len(iaResult.preparedEvents) :
        iaResult.preparedEvents[k].taskId = taskId }

C28_WitnessOverwritten ==
    /\ IAReturned
    /\ logBuffer = << Prep("INAPP-1", Fresh, "purchase"),
                      InAppLine(SuccessMarkers, "INAPP-1", Fresh, NoBody),
                      Prep("INAPP-1", Fresh, "login") >>
    /\ \E k \in EventsOf("INAPP-1") :
          /\ iaResult.preparedEvents[k].eventName = Str("login")
          /\ iaResult.preparedEvents[k].sent

-----------------------------------------------------------------------------
(* Claims about what the verdict reads of the expected payload *)

\* the keys of the field table other than status, and their aliases
ComparedKeys ==
    UNION { {DEEP_LINK_FIELDS[i].key}
               \cup {DEEP_LINK_FIELDS[i].aliases[j] : j \in 1..Len(DEEP_LINK_FIELDS[i].aliases)}
            : i \in {i \in FieldIndexes : DEEP_LINK_FIELDS[i].key # "status"} }

\* the part of payload under the compared keys
ComparedPart(payload) ==
    [key \in DOMAIN payload \cap ComparedKeys |-> payload[key]]

\* payloads that agree with payload under every compared key, with and without a
\* status and a key no field spec names
SameComparedPart(payload) ==
    { other @@ status @@ ComparedPart(payload) :
        status \in { <<>>, "status" :> Str("FOUND"), "status" :> Str("NOT_FOUND"),
                     "status" :> Null },
        other \in { <<>>, "utm_source" :> Str("z") } }

\* the verdict of the run on the same records with the stored payload replaced
VerdictWith(payload) ==
    Verdict(dlResult.foundLog,
            [latestDeepLinkExpectedData EXCEPT !.payload = payload],
            dlResult.logs, dlResult.allLogs, dlResult.recentLogs, dlResult.sinceMs)

\* C29: for a fixed located record the outcome depends on a non-null expected
\* payload only through what it holds under the keys of the field table other
\* than status and under their aliases: every payload that agrees with the
\* stored one on those keys gives the same verdict, the same list of missing
\* fields and the same list of mismatches, whatever its status and its other
\* keys.
C29_OnlyComparedKeysCount ==
    (DLVerdictReached /\ dlResult.expectedPayload # NoJson) =>
        \A payload \in SameComparedPart(dlResult.expectedPayload) :
           /\ VerdictWith(payload).outcome = dlResult.outcome
           /\ VerdictWith(payload).missingRequired = dlResult.missingRequired
           /\ VerdictWith(payload).mismatches = dlResult.mismatches

\* a run whose stored payload holds only a status, on a record on which the
\* verdict with no stored payload would be another one
C29_Witness ==
    /\ DLVerdictReached
    /\ dlResult.expectedPayload = [status |-> Str("x")]
    /\ dlResult.outcome = "Passed"
    /\ VerdictWith(NoJson).outcome = "Failed"
    /\ VerdictWith([status |-> Str("FOUND"), utm_source |-> Str("z")]) = 
          [dlResult EXCEPT !.expectedPayload = [status |-> Str("FOUND"), utm_source |-> Str("z")]]

\* a run with a mismatch, the same under every payload with that compared part
C29_WitnessMismatch ==
    /\ DLVerdictReached
    /\ dlResult.expectedPayload = [pid |-> Str("m"), media_source |-> Str("x")]
    /\ Len(dlResult.mismatches) = 1
    /\ dlResult.outcome = "Failed"

-----------------------------------------------------------------------------
(* Calls of guarded tools that arrive in any order, before, while and after *)
(* the credentials are validated                                            *)

GuardedTools == {"verifyDeepLink", "createDeepLink"}

\* arguments with which createDeepLink goes on to its signed fetch
GuardArgs ==
    { [oneLinkUrl |-> Str("https://onelink/abc/def"), devKey |-> Undefined,
       includeUriScheme |-> Bool(TRUE), hasSha256 |-> Str("yes")] }

GuardAnswers == {FetchThrows, FetchGives(Obj([deep_link_value |-> Str("y")]))}

Responses == {Answered(200), Answered(404), Answered(403), Answered(500), Rejected}

GuardEnvs ==
    {ValidEnv, Env(Undefined, Str("com.app")), Env(Str("k"), Str("a"))}

GuardStart(envs) ==
    /\ logBuffer = <<>>
    /\ streaming = FALSE
    /\ latestDeepLinkExpectedData = NoExpectedData
    /\ now = StartMs
    /\ dlPc = "idle" /\ dlWaited = 0 /\ dlResult = NoResult
    /\ iaPc = "idle" /\ iaWaited = 0 /\ iaArg = "" /\ iaResult = NoResult
    /\ ingested = 0
    /\ streams = 0
    /\ cdFetched = NeverFetched
    /\ sdkPc = "idle" /\ sdkWaited = 0 /\ sdkResult = NoResult
    /\ extraction = NoExtraction
    /\ \E e \in envs : StartIn(e)

InitGuard == GuardStart(GuardEnvs)

NextGuard ==
    \/ \E c \in Calls, tool \in GuardedTools : GuardedCall(c, tool)
    \/ \E r \in 1..Len(runs), response \in Responses : PrecheckSettled(r, response)
    \/ \E c \in Calls : GuardResumed(c, GuardArgs)
    \/ DLStreamStarted
    \/ DLStreamFailed
    \/ DLWake
    \/ CDFetchSettled(GuardAnswers)

SpecGuard == InitGuard /\ [][NextGuard]_vars

Returned(c) == guardCalls[c].pc \in {"refused", "admitted"}

\* C25: the guard validates at most once per process: whatever the number and
\* the interleaving of the calls, also of calls that arrive while the validation
\* is in flight, at most one validation run is started and at most one request
\* sent; every call receives the result of that run; a recorded result is never
\* replaced; and after a failed validation no later call reaches its handler.
C25_ValidatesOnce ==
    /\ [](Len(runs) <= 1)
    /\ [](Cardinality({r \in 1..Len(runs) : runs[r].requested}) <= 1)
    /\ [](\A c \in Calls :
             Returned(c) => /\ Len(runs) = 1
                            /\ runs[1].settled
                            /\ guardCalls[c].validation = runs[1].result
                            /\ guardCalls[c].validation = oneTimeResult)
    /\ [][oneTimeResult # NotValidated => oneTimeResult' = oneTimeResult]_vars
    /\ [][(oneTimeResult # NotValidated /\ ~oneTimeResult.ok) =>
             \A c \in Calls :
                guardCalls'[c] # guardCalls[c] => guardCalls'[c].pc \in {"awaiting", "refused"}]_vars

\* every call arrived while the one request was in flight; it was answered
\* 403 and all of them were refused with that result
C25_Witness ==
    /\ Len(runs) = 1
    /\ runs[1].requested /\ runs[1].response = Answered(403)
    /\ \A c \in Calls :
          /\ guardCalls[c].pc = "refused"
          /\ guardCalls[c].awaits = 1
          /\ guardCalls[c].validation = GuardResult(FALSE, "Forbidden")
    /\ Cardinality({c \in Calls : guardCalls[c].starter}) = 1
    /\ inFlight = 0

\* a call that arrived after the failed validation was refused from the record
C25_WitnessLater ==
    /\ \E c \in Calls : guardCalls[c].pc = "refused" /\ guardCalls[c].awaits = 0
    /\ oneTimeResult = GuardResult(FALSE, "PrecheckNotRun")


\* a tool's own handler is invoked in this step
HandlerInvoked ==
    \/ dlPc # "starting" /\ dlPc' = "starting"
    \/ cdPc \in {"idle", "done"} /\ createVars' # createVars

\* what a handler can have done: a stream, a store write, a call under way
HandlerEffects ==
    <<streams, streaming, latestDeepLinkExpectedData, logBuffer,
      dlPc, dlWaited, dlResult, cdPc, cdArgs, cdResult, cdFetched>>

ValidatedOk == oneTimeResult # NotValidated /\ oneTimeResult.ok

\* C26: the handler of a guarded tool is invoked only after the credential
\* validation has completed with ok = true, in the step in which a waiting call
\* is let through; when the validation result is not ok the call returns an
\* error result and the handler is not executed: no stream is started, no store
\* is written, nothing of any tool changes.
C26_HandlerOnlyAfterOk ==
    /\ [][ HandlerInvoked =>
             /\ ValidatedOk
             /\ \E c \in Calls :
                   /\ guardCalls[c].pc = "awaiting"
                   /\ guardCalls'[c].pc = "admitted"
                   /\ guardCalls'[c].validation.ok ]_vars
    /\ [][ \A c \in Calls :
              (guardCalls[c].pc = "awaiting" /\ guardCalls'[c].pc # "awaiting"
                  /\ ~ValidatedOk)
                 => /\ guardCalls'[c].pc = "refused"
                    /\ guardCalls'[c].isError
                    /\ HandlerEffects' = HandlerEffects ]_vars
    /\ [](\A c \in Calls :
             /\ guardCalls[c].pc = "refused"
                   <=> (guardCalls[c].isError /\ ~guardCalls[c].validation.ok)
             /\ guardCalls[c].pc = "admitted" => guardCalls[c].validation.ok)
    /\ [](~ValidatedOk =>
             /\ streams = 0 /\ ~streaming
             /\ latestDeepLinkExpectedData = NoExpectedData
             /\ dlPc = "idle" /\ cdPc = "idle")

\* after a validation that failed, calls of both tools have returned the error
\* result and nothing has happened
C26_Witness ==
    /\ oneTimeResult = GuardResult(FALSE, "PrecheckFailed")
    /\ { guardCalls[c].tool : c \in Calls } = GuardedTools
    /\ \A c \in Calls : guardCalls[c].pc = "refused" /\ guardCalls[c].isError
    /\ streams = 0
    /\ latestDeepLinkExpectedData = NoExpectedData

\* after a validation that passed, both handlers have run: a stream exists and
\* the store is written
C26_WitnessAdmitted ==
    /\ oneTimeResult = GuardResult(TRUE, "")
    /\ \A c \in Calls : guardCalls[c].pc = "admitted"
    /\ streams = 1
    /\ latestDeepLinkExpectedData # NoExpectedData

-----------------------------------------------------------------------------
(* The validation in every environment: DEV_KEY and APP_ID missing, blank,  *)
(* padded, well and badly formed                                            *)

DevKeys == {Undefined, Str(""), Str(" "), Str("k"), Str(" k ")}

AppIds ==
    {Undefined, Str(" "), Str(" a.b ")}
    \cup { Str(id) : id \in {"a.b", "A.b_1", "a.b-c", "a", "a-b", "a.1b", "a..b",
                             "a.b.", "a.b-1", "a-b.c", "a.b-c-d", "a b.c"} }

\* every DEV_KEY with a well-formed APP_ID, every APP_ID with a DEV_KEY, both
\* missing, and both padded
PrecheckEnvs ==
    { Env(devKey, Str("a.b")) : devKey \in DevKeys }
    \cup { Env(Str("k"), appId) : appId \in AppIds }
    \cup {Env(Undefined, Undefined), Env(Str(" k "), Str("a.b-c")), Env(Str(" "), Str("a..b"))}

InitPrecheck == GuardStart(PrecheckEnvs)

SpecPrecheck == InitPrecheck /\ [][NextGuard]_vars

\* the credential is there and not blank
NonEmptyTrimmed(value) == value.t = "string" /\ value.v \notin {"", " "}

\* the application ids of the model that have the format: two or more segments
\* joined by dots, each a letter followed by letters, digits and underscores,
\* with or without one hyphenated segment at the end
WellFormedAppIds == {"a.b", " a.b ", "A.b_1", "a.b-c"}

CredentialsUsable ==
    /\ NonEmptyTrimmed(env.DEV_KEY)
    /\ NonEmptyTrimmed(env.APP_ID)
    /\ env.APP_ID.v \in WellFormedAppIds

\* C30: the validation result is ok if and only if DEV_KEY and APP_ID are both
\* non-empty after trimming, APP_ID has the application-id format and the
\* precheck request is answered with status 200 or 404; with a credential
\* missing or a malformed APP_ID the result is not ok and no request is sent;
\* and a 403, any other status and a failed request give a result that is not
\* ok: the run settles with a result in every case.
C30_OkIffUsableAndAccepted ==
    /\ oneTimeResult # NotValidated =>
          /\ Len(runs) = 1 /\ runs[1].settled /\ runs[1].result = oneTimeResult
          /\ oneTimeResult.ok <=>
                /\ CredentialsUsable
                /\ runs[1].response \in {Answered(200), Answered(404)}
    /\ ~CredentialsUsable =>
          \A r \in 1..Len(runs) :
             ~runs[r].requested /\ runs[r].settled /\ ~runs[r].result.ok
    /\ \A r \in 1..Len(runs) :
          /\ runs[r].requested <=> CredentialsUsable
          /\ (runs[r].settled /\ runs[r].response \notin {NoResponse, Answered(200), Answered(404)})
                => (runs[r].result # NotValidated /\ ~runs[r].result.ok)
          /\ (runs[r].requested /\ ~runs[r].settled) => oneTimeResult = NotValidated

\* padded credentials and a hyphenated id pass with a 404
C30_Witness ==
    /\ env = Env(Str(" k "), Str("a.b-c"))
    /\ oneTimeResult = GuardResult(TRUE, "")
    /\ runs[1].response = Answered(404)

\* a blank DEV_KEY: not ok, without a request
C30_WitnessBlank ==
    /\ env = Env(Str(" "), Str("a.b"))
    /\ oneTimeResult = GuardResult(FALSE, "MissingValues")
    /\ ~runs[1].requested

\* a malformed APP_ID: not ok, without a request
C30_WitnessMalformed ==
    /\ env = Env(Str("k"), Str("a.b-c-d"))
    /\ oneTimeResult = GuardResult(FALSE, "BadAppIdFormat")
    /\ ~runs[1].requested

\* a request that failed: not ok
C30_WitnessRejected ==
    /\ CredentialsUsable
    /\ runs # <<>> /\ runs[1].response = Rejected
    /\ oneTimeResult = GuardResult(FALSE, "PrecheckNotRun")

====
